---- MODULE Spec2Model ----
(***************************************************************************)
(* A model of kplr's record adapter (API._munge_dict, Model.__init__,      *)
(* mast.APIModel.__init__) and of its on-disk file cache (_datafile).      *)
(*                                                                         *)
(* Text is a sequence of atoms.  An atom is a TLA+ string holding a piece  *)
(* of text that no operation of the code subdivides: one character where   *)
(* the code slices, pads, parses or splits, a whole literal elsewhere.     *)
(***************************************************************************)
EXTENDS Integers, Sequences, FiniteSets, TLC

VARIABLES
    data_root,  \* API.data_root of the client
    cls,        \* the class being constructed
    row,        \* a response row: a function from field names to values
    record,     \* the constructed object, NotBuilt before construction
    munged,     \* the result of API._munge_dict(row), NotBuilt before the call
    fs,         \* the local file system at the record's base_dir / filename
    requests,   \* number of HTTP requests issued so far
    calls,      \* the most recent calls of the operations (at most two), older first
    pyfits,     \* TRUE iff the module-level import of pyfits succeeded
    environ,    \* os.environ: the value of the variable the code reads, Unset when absent
    modules,    \* module-level state: the names bound when a module was imported
    pc          \* the position and the locals of each call that is in progress

vars == <<data_root, cls, row, record, munged, fs, requests, calls, pyfits,
          environ, modules, pc>>

Unset == [t |-> "unset"]

\* nothing imported beyond the package, no call in progress
Idle ==
    /\ environ = Unset
    /\ modules = <<>>
    /\ pc = <<>>

NotBuilt == [ok |-> FALSE, error |-> "not built"]

(***************************************************************************)
(* Python values a response row carries: unicode strings, and what         *)
(* json.loads produces besides them.                                       *)
(***************************************************************************)
PyStr(s) == [t |-> "str", s |-> s]
PyInt(n) == [t |-> "int", v |-> n]
PyFloat(n, k) == [t |-> "float", n |-> n, k |-> k]   \* the number n / 10^k
PyBool(b) == [t |-> "bool", v |-> b]
PyList == [t |-> "list"]
None == [t |-> "NoneType"]

(***************************************************************************)
(* Bounds of the model.                                                    *)
(***************************************************************************)
MaxIdDigits == 8   \* identifiers 2 * 10^k for k up to this exponent
MaxLen == 3        \* longest raw value handed to _munge_dict
MaxRequests == 3   \* HTTP requests after which no further call is made
BodyLen == 2       \* bytes in a served file
MaxRows == 2       \* most rows in a response of a search service
MaxNameLen == 4    \* longest planet name handed to planet()

(***************************************************************************)
(* Program constants.                                                      *)
(***************************************************************************)
KEPID_WIDTH == 9       \* "{0:09d}"
URL_PREFIX_LEN == 4    \* self.kepid[:4]
HTTP_OK == 200
KOI_WIDTH == 8         \* "K{0:08.2f}"
KOI_DECIMALS == 2      \* "K{0:08.2f}"
STARS_MAX_RECORDS == 100   \* params.pop("max_records", 100)

Min(a, b) == IF a < b THEN a ELSE b

(***************************************************************************)
(* Text helpers.                                                           *)
(***************************************************************************)
DigitChars == <<"0", "1", "2", "3", "4", "5", "6", "7", "8", "9">>

RECURSIVE Digits(_)
\* str(n) for n >= 0, the "d" presentation of format()
Digits(n) ==
    IF n < 10 THEN <<DigitChars[n + 1]>>
    ELSE Digits(n \div 10) \o <<DigitChars[(n % 10) + 1]>>

Format09d_unpadded(n) == Digits(n)

\* "{0:09d}".format(n): left-padded with zeros to the width, never truncated
Format09d(n) ==
    LET d == Digits(n)
    IN  IF Len(d) >= KEPID_WIDTH THEN d
        ELSE [i \in 1..(KEPID_WIDTH - Len(d)) |-> "0"] \o d

\* unicode.lower() of one atom; the atoms of the model with upper-case text
LowerAtom(c) ==
    CASE c = "K" -> "k"
      [] c = "P" -> "p"
      [] c = "LC" -> "lc"
      [] c = "SC" -> "sc"
      [] OTHER -> c

Lower(s) == [i \in 1..Len(s) |-> LowerAtom(s[i])]

\* os.path.join(a, b) of posixpath
PathJoin(a, b) ==
    IF Len(b) > 0 /\ b[1] = "/" THEN b
    ELSE IF Len(a) = 0 \/ a[Len(a)] = "/" THEN a \o b
    ELSE a \o <<"/">> \o b

(***************************************************************************)
(* The data-file classes LightCurve and TargetPixelFile.                   *)
(***************************************************************************)
DataFileClasses == {"LightCurve", "TargetPixelFile"}

product(c) ==
    IF c = "LightCurve" THEN <<"lightcurves">> ELSE <<"target_pixel_files">>

suffixes(c) ==
    IF c = "LightCurve" THEN << <<"llc">>, <<"slc">> >>
    ELSE << <<"lpd-targ">>, <<"spd-targ">> >>

filetype(c) ==
    IF c = "LightCurve" THEN <<".fits">> ELSE <<".fits.gz">>

base_url == <<"http://archive.stsci.edu/pub/kepler">>

(***************************************************************************)
(* Model.__init__ and its subclasses' identifier formats.                  *)
(***************************************************************************)
ModelClasses == {"KOI", "Planet", "Star", "TestModel"}

\* the fields named by the class's _id format string, in order
IdFields(c) ==
    CASE c = "KOI" -> <<"kepoi_name">>
      [] c = "Planet" -> <<"kepler_name">>
      [] c = "Star" -> <<"kic_kepler_id">>
      [] c = "TestModel" -> <<"kepler_name">>
      [] OTHER -> <<"sci_data_set_name", "ktc_target_type">>

Range(s) == {s[i] : i \in DOMAIN s}

Error(kind) == [ok |-> FALSE, error |-> kind]

\* f with the entries of g added or replaced (setattr after the loop)
Override(f, g) ==
    [k \in (DOMAIN f) \cup (DOMAIN g) |-> IF k \in DOMAIN g THEN g[k] ELSE f[k]]

\* Model.__init__: setattr for every item of params, then _id.format(**params)
Model__init__(c, params) ==
    IF ~(Range(IdFields(c)) \subseteq DOMAIN params) THEN Error("KeyError")
    ELSE [ok |-> TRUE,
          cls |-> c,
          params |-> params,
          attrs |-> params,
          name |-> [i \in DOMAIN IdFields(c) |-> params[IdFields(c)[i]]]]

(***************************************************************************)
(* _datafile.__init__, _datafile.filename and _datafile.url.               *)
(***************************************************************************)
suffix_ignoring_cadence(c, target_type) == suffixes(c)[1]

\* self.suffixes[int(self.ktc_target_type != "LC")]
suffix(c, target_type) ==
    suffixes(c)[IF target_type # <<"LC">> THEN 2 ELSE 1]

datafile__init__(c, root, params) ==
    LET m == Model__init__(c, params)
    IN  IF ~m.ok THEN m
        ELSE IF "ktc_kepler_id" \notin DOMAIN params THEN Error("AttributeError")
        ELSE LET kepid == Format09d(params["ktc_kepler_id"])
                 base_dir == PathJoin(PathJoin(PathJoin(root, <<"data">>),
                                               product(c)), kepid)
                 fname == Lower(params["sci_data_set_name"] \o <<"_">>
                                \o suffix(c, params["ktc_target_type"])
                                \o filetype(c))
             IN  [m EXCEPT !.attrs =
                     Override(m.attrs, [kepid |-> kepid,
                                        base_dir |-> base_dir,
                                        _filename |-> fname])]

\* the filename property
filename(self) == PathJoin(self.attrs["base_dir"], self.attrs["_filename"])

\* the url property
url(self) ==
    base_url \o <<"/">> \o product(self.cls)
             \o <<"/">> \o SubSeq(self.attrs["kepid"], 1,
                                  Min(URL_PREFIX_LEN, Len(self.attrs["kepid"])))
             \o <<"/">> \o self.attrs["kepid"]
             \o <<"/">> \o self.attrs["_filename"]

(***************************************************************************)
(* Inputs of the data-file construction.                                   *)
(***************************************************************************)
RECURSIVE Pow10(_)
Pow10(k) == IF k = 0 THEN 1 ELSE 10 * Pow10(k - 1)

KepIds == {0, 9787239} \cup {2 * Pow10(k) : k \in 0..MaxIdDigits}

DataSetNames == { <<"K", "P", "1">>, <<"k", "p", "1">>, <<"K", "P", "2">> }

TargetTypes == { <<"LC">>, <<"SC">>, <<"lc">> }

Roots == { <<"/", "home", "/", "data">>, <<"/", "home", "/", "data", "/">> }

DataRows ==
    {[ktc_kepler_id |-> i, sci_data_set_name |-> n, ktc_target_type |-> t] :
        i \in KepIds, n \in DataSetNames, t \in TargetTypes}

NoFs == [dir |-> FALSE, exists |-> FALSE, data |-> <<>>]

InitPath ==
    /\ data_root \in Roots
    /\ cls \in DataFileClasses
    /\ row \in DataRows
    /\ record = NotBuilt
    /\ munged = NotBuilt
    /\ fs = NoFs
    /\ requests = 0
    /\ calls = <<>>
    /\ pyfits = TRUE
    /\ Idle

\* LightCurve(api, row) / TargetPixelFile(api, row)
ConstructDataFile ==
    /\ record = NotBuilt
    /\ record' = datafile__init__(cls, data_root, row)
    /\ UNCHANGED <<data_root, cls, row, munged, fs, requests, calls, pyfits, environ, modules, pc>>

NextPath == ConstructDataFile

SpecPath == InitPath /\ [][NextPath]_vars

(***************************************************************************)
(* Claims about the cache paths.                                           *)
(***************************************************************************)
RECURSIVE Segments(_)
\* the non-empty pieces of a path between "/" atoms
Segments(p) ==
    IF Len(p) = 0 THEN <<>>
    ELSE IF p[1] = "/" THEN Segments(Tail(p))
    ELSE LET cut == IF \E i \in 1..Len(p) : p[i] = "/"
                    THEN (CHOOSE i \in 1..Len(p) :
                             /\ p[i] = "/"
                             /\ \A j \in 1..(i - 1) : p[j] # "/") - 1
                    ELSE Len(p)
         IN  <<SubSeq(p, 1, cut)>> \o Segments(SubSeq(p, cut + 1, Len(p)))

DigitValue(ch) == CHOOSE d \in 0..9 : DigitChars[d + 1] = ch

RECURSIVE Denotes(_)
\* the number a sequence of digit characters denotes
Denotes(s) ==
    IF Len(s) = 0 THEN 0
    ELSE 10 * Denotes(SubSeq(s, 1, Len(s) - 1)) + DigitValue(s[Len(s)])

\* s is n written in decimal and left-padded with zeros to 9 digits
IsZeroPadded(s, n) ==
    /\ Len(s) >= 9
    /\ Len(s) > 9 => s[1] # "0"
    /\ \A i \in 1..Len(s) : s[i] \in Range(DigitChars)
    /\ Denotes(s) = n

\* C6: the local path is {data_root}/data/{product}/{id zero-padded to 9
\* digits}/{filename} and the remote URL is {base}/{product}/{first 4
\* characters of the padded id}/{padded id}/{filename}, with the same product,
\* padded id and filename in both.
C6_PathScheme ==
    record.ok =>
        LET P == Segments(filename(record))
            U == Segments(url(record))
            R == Segments(data_root)
            n == Len(R)
        IN  /\ Len(P) = n + 4
            /\ SubSeq(P, 1, n) = R
            /\ P[n + 1] = <<"data">>
            /\ P[n + 2] = product(cls)
            /\ IsZeroPadded(P[n + 3], row["ktc_kepler_id"])
            /\ Len(U) = 5
            /\ U[1] = base_url
            /\ U[2] = P[n + 2]
            /\ U[3] = SubSeq(P[n + 3], 1, 4)
            /\ U[4] = P[n + 3]
            /\ U[5] = P[n + 4]

\* a record whose identifier needed padding, under a root with a trailing "/"
C6_Witness ==
    /\ record.ok
    /\ row["ktc_kepler_id"] = 9787239
    /\ data_root[Len(data_root)] = "/"
    /\ cls = "TargetPixelFile"

\* the suffix and extension tables as the claim states them
ClaimedSuffix(c, t) ==
    IF c = "LightCurve"
    THEN (IF t = <<"LC">> THEN <<"llc">> ELSE <<"slc">>)
    ELSE (IF t = <<"LC">> THEN <<"lpd-targ">> ELSE <<"spd-targ">>)

ClaimedExtension(c) ==
    IF c = "LightCurve" THEN <<".fits">> ELSE <<".fits.gz">>

\* C7: the file name is lower("{dataset name}_{suffix}{extension}") with the
\* long-cadence suffix iff the cadence flag is "LC", and the long- and
\* short-cadence records of one dataset never share a file name.
C7_FileName ==
    record.ok =>
        /\ record.attrs["_filename"] =
              Lower(row["sci_data_set_name"] \o <<"_">>
                    \o ClaimedSuffix(cls, row["ktc_target_type"])
                    \o ClaimedExtension(cls))
        /\ \A r2 \in DataRows :
              /\ r2["sci_data_set_name"] = row["sci_data_set_name"]
              /\ (r2["ktc_target_type"] = <<"LC">>) # (row["ktc_target_type"] = <<"LC">>)
              => datafile__init__(cls, data_root, r2).attrs["_filename"]
                     # record.attrs["_filename"]

\* a short-cadence record whose flag is not the literal "SC", with upper case
\* in its dataset name
C7_Witness ==
    /\ record.ok
    /\ row["ktc_target_type"] = <<"lc">>
    /\ row["sci_data_set_name"] = <<"K", "P", "1">>
    /\ record.attrs["_filename"] = <<"k", "p", "1", "_", "slc", ".fits">>

(***************************************************************************)
(* The builtins int() and float(), on the values a row carries.  Raw text  *)
(* is drawn from Chars, so the literals are an optional sign, digits and   *)
(* at most one "."                                                         *)
(***************************************************************************)
Raised(kind) == [ok |-> FALSE, error |-> kind]
Returned(v) == [ok |-> TRUE, value |-> v]

IsSign(c) == c \in {"-", "+"}
Unsigned(s) == IF Len(s) > 0 /\ IsSign(s[1]) THEN Tail(s) ELSE s
SignOf(s) == IF Len(s) > 0 /\ s[1] = "-" THEN -1 ELSE 1
IsDigit(c) == c \in Range(DigitChars)
NotDot(c) == c # "."

IsIntLiteral(s) ==
    LET u == Unsigned(s)
    IN  Len(u) > 0 /\ \A i \in 1..Len(u) : IsDigit(u[i])

IsFloatLiteral(s) ==
    LET u == Unsigned(s)
    IN  /\ \A i \in 1..Len(u) : IsDigit(u[i]) \/ u[i] = "."
        /\ Cardinality({i \in 1..Len(u) : u[i] = "."}) <= 1
        /\ \E i \in 1..Len(u) : IsDigit(u[i])

RECURSIVE Normal(_, _)
\* n / 10^k without trailing zeros in the fraction
Normal(n, k) ==
    IF k > 0 /\ n % 10 = 0 THEN Normal(n \div 10, k - 1) ELSE PyFloat(n, k)

IntOfLiteral(s) == SignOf(s) * Denotes(Unsigned(s))

FloatOfLiteral(s) ==
    LET u == Unsigned(s)
        dots == {i \in 1..Len(u) : u[i] = "."}
        k == IF dots = {} THEN 0 ELSE Len(u) - (CHOOSE i \in dots : TRUE)
    IN  Normal(SignOf(s) * Denotes(SelectSeq(u, NotDot)), k)

\* int(v)
int(v) ==
    CASE v.t = "str" ->
            IF IsIntLiteral(v.s) THEN Returned(PyInt(IntOfLiteral(v.s)))
            ELSE Raised("ValueError")
      [] v.t = "int" -> Returned(v)
      [] v.t = "bool" -> Returned(PyInt(IF v.v THEN 1 ELSE 0))
      [] v.t = "float" ->
            Returned(PyInt(IF v.n >= 0 THEN v.n \div Pow10(v.k)
                           ELSE -((-v.n) \div Pow10(v.k))))
      [] OTHER -> Raised("TypeError")

\* float(v)
float(v) ==
    CASE v.t = "str" ->
            IF IsFloatLiteral(v.s) THEN Returned(FloatOfLiteral(v.s))
            ELSE Raised("ValueError")
      [] v.t = "int" -> Returned(PyFloat(v.v, 0))
      [] v.t = "bool" -> Returned(PyFloat(IF v.v THEN 1 ELSE 0, 0))
      [] v.t = "float" -> Returned(v)
      [] OTHER -> Raised("TypeError")

(***************************************************************************)
(* API._munge_dict.                                                        *)
(***************************************************************************)
munge_value_float_first(v) ==
    LET f == float(v)
        i == int(v)
    IN  IF v = PyStr(<<>>) /\ (f.ok \/ f.error = "ValueError") THEN Returned(None)
        ELSE IF f.ok THEN f
        ELSE IF f.error # "ValueError" THEN f
        ELSE IF i.ok THEN i
        ELSE IF i.error # "ValueError" THEN i
        ELSE Returned(v)

\* the body of the loop: the value stored under tmp[k], or the exception that
\* leaves the try statements
munge_value(v) ==
    LET i == int(v)
        f == float(v)
        tried == IF i.ok THEN i
                 ELSE IF i.error # "ValueError" THEN i
                 ELSE IF f.ok THEN f
                 ELSE IF f.error # "ValueError" THEN f
                 ELSE Returned(v)
    IN  IF tried.ok /\ v = PyStr(<<>>) THEN Returned(None) ELSE tried

munge_dict(r) ==
    IF \E k \in DOMAIN r : ~munge_value(r[k]).ok
    THEN Raised((CHOOSE e \in {munge_value(r[k]) : k \in DOMAIN r} : ~e.ok).error)
    ELSE Returned([k \in DOMAIN r |-> munge_value(r[k]).value])

(***************************************************************************)
(* Inputs of _munge_dict: rows of ea_request (text split from CSV) and of  *)
(* mast_request (decoded JSON).                                            *)
(***************************************************************************)
Chars == {"6", "-", ".", "x"}

RECURSIVE TextUpTo(_)
TextUpTo(n) ==
    IF n = 0 THEN {<<>>}
    ELSE LET shorter == TextUpTo(n - 1)
         IN  shorter \cup {Append(s, c) : s \in shorter, c \in Chars}

RawText == {PyStr(s) : s \in TextUpTo(MaxLen)}

JsonValues == {None, PyBool(TRUE), PyInt(6), PyFloat(-65, 1), PyList}

RawValues == RawText \cup JsonValues

Keys == {"key", "kepid"}

RawRows == UNION {[S -> RawValues] : S \in SUBSET Keys}

InitMunge ==
    /\ row \in RawRows
    /\ munged = NotBuilt
    /\ data_root = <<>>
    /\ cls = "API"
    /\ record = NotBuilt
    /\ fs = NoFs
    /\ requests = 0
    /\ calls = <<>>
    /\ pyfits = TRUE
    /\ Idle

\* self._munge_dict(row), as ea_request and mast_request call it per row
MungeDict ==
    /\ munged = NotBuilt
    /\ munged' = munge_dict(row)
    /\ UNCHANGED <<data_root, cls, row, record, fs, requests, calls, pyfits, environ, modules, pc>>

NextMunge == MungeDict

SpecMunge == InitMunge /\ [][NextMunge]_vars

(***************************************************************************)
(* Claims about the type coercion.                                         *)
(***************************************************************************)
AllText(r) == \A k \in DOMAIN r : r[k].t = "str"

\* C8: every raw string value is mapped to the integer it denotes if it parses
\* as an integer, else to the float it denotes if it parses as a float, else
\* to itself; the empty string is mapped to None; the keys are unchanged.
C8_Coercion ==
    (munged # NotBuilt /\ AllText(row)) =>
        /\ munged.ok
        /\ DOMAIN munged.value = DOMAIN row
        /\ \A k \in DOMAIN row :
              LET s == row[k].s
                  out == munged.value[k]
              IN  /\ IsIntLiteral(s) => out = PyInt(IntOfLiteral(s))
                  /\ (~IsIntLiteral(s) /\ IsFloatLiteral(s)) => out = FloatOfLiteral(s)
                  /\ (~IsIntLiteral(s) /\ ~IsFloatLiteral(s) /\ s # <<>>) => out = row[k]
                  /\ s = <<>> => out = None

\* a row with an integer literal and a float literal has been coerced
C8_Witness ==
    /\ munged # NotBuilt
    /\ DOMAIN row = Keys
    /\ row["key"] = PyStr(<<"-", "6">>)
    /\ row["kepid"] = PyStr(<<"6", ".", "6">>)
    /\ munged.ok
    /\ munged.value["key"] = PyInt(-6)
    /\ munged.value["kepid"] = PyFloat(66, 1)

\* C9: the coercion of a row never fails, whatever values the row carries, and
\* every value it yields is an int, a float, the original value or None.
C9_NeverFails ==
    munged # NotBuilt =>
        /\ munged.ok
        /\ \A k \in DOMAIN row :
              \/ munged.value[k].t \in {"int", "float", "NoneType"}
              \/ munged.value[k] = row[k]

(***************************************************************************)
(* The file cache: _datafile.fetch and _datafile.open.                     *)
(*                                                                         *)
(* fs is the part of the file system the record touches: whether base_dir  *)
(* exists, whether a file exists at filename, and the bytes of that file.  *)
(* env is what the surroundings do during one call: whether the server     *)
(* answers and with which status and body, whether makedirs can create the *)
(* directory, and how many bytes reach the disk before the write fails     *)
(* (all of them when it does not fail).                                    *)
(***************************************************************************)
Statuses == {200, 204, 404}

Bodies == {[i \in 1..BodyLen |-> b] : b \in {"a", "b"}}

\* the fields a call never reads (the body of a refused request, ...) are held
\* at one value
Envs ==
    LET b0 == CHOOSE b \in Bodies : TRUE
    IN  [answers : {FALSE}, status : {HTTP_OK}, body : {b0},
         mkdir : {FALSE}, written : {0}]
        \cup [answers : {TRUE}, status : Statuses \ {HTTP_OK}, body : {b0},
              mkdir : {FALSE}, written : {0}]
        \cup [answers : {TRUE}, status : {HTTP_OK}, body : Bodies,
              mkdir : BOOLEAN, written : 0..BodyLen]

APIError(code, u, txt) ==
    [ok |-> FALSE, error |-> "APIError", code |-> code, url |-> u, txt |-> txt]

\* urllib2.urlopen(urllib2.Request(u)): URLError when the server cannot be
\* reached, HTTPError (carrying u, the code and the unread body) for a status
\* outside 2xx, else the response
urlopen(u, env) ==
    IF ~env.answers THEN [ok |-> FALSE, error |-> "URLError"]
    ELSE IF env.status < 200 \/ env.status >= 300
    THEN [ok |-> FALSE, error |-> "HTTPError", code |-> env.status, url |-> u,
          fp |-> env.body]
    ELSE [ok |-> TRUE, code |-> env.status, body |-> env.body]

\* try: os.makedirs(self.base_dir) except os.error: pass
makedirs(f, env) == IF f.dir \/ env.mkdir THEN [f EXCEPT !.dir = TRUE] ELSE f

cached_never(f, clobber) == FALSE

\* os.path.exists(filename) and not clobber
cached(f, clobber) == f.exists /\ ~clobber

status_ok_any(code) == TRUE

\* not (int(code) != 200)
status_ok(code) == code = HTTP_OK

Outcome(f, n, res) == [fs |-> f, requests |-> n, result |-> res]

write_file_nowhere(f, env) == Outcome(f, 1, Returned("self"))

\* open(filename, "wb").write(handler.read()): the file is created or
\* truncated first, then the bytes are written
write_file(f, env) ==
    IF ~f.dir THEN Outcome(f, 1, Raised("IOError"))
    ELSE IF env.written < BodyLen
    THEN Outcome([f EXCEPT !.exists = TRUE,
                           !.data = SubSeq(env.body, 1, env.written)],
                 1, Raised("IOError"))
    ELSE Outcome([f EXCEPT !.exists = TRUE, !.data = env.body],
                 1, Returned("self"))

fetch_truncating_first(self, f, clobber, env) ==
    IF cached(f, clobber) THEN Outcome(f, 0, Returned("self"))
    ELSE LET g == IF f.dir THEN [f EXCEPT !.exists = TRUE, !.data = <<>>] ELSE f
             handler == urlopen(url(self), env)
         IN  IF ~handler.ok THEN Outcome(g, 1, handler)
             ELSE IF ~status_ok(handler.code)
             THEN Outcome(g, 1, APIError(handler.code, url(self), <<>>))
             ELSE write_file(makedirs(g, env), env)

\* _datafile.fetch(clobber): the file system it leaves, the number of HTTP
\* requests it issued and what the caller gets
fetch(self, f, clobber, env) ==
    IF cached(f, clobber) THEN Outcome(f, 0, Returned("self"))
    ELSE LET handler == urlopen(url(self), env)
         IN  IF ~handler.ok THEN Outcome(f, 1, handler)
             ELSE IF ~status_ok(handler.code)
             THEN Outcome(f, 1, APIError(handler.code, url(self), <<>>))
             ELSE write_file(makedirs(f, env), env)

\* pyfits.open(fn): the reader of the external library, which needs a whole
\* file
pyfits_open(f) ==
    IF f.exists /\ f.data \in Bodies THEN Returned("HDUList")
    ELSE Raised("IOError")

open_always_clobbers(self, installed, f, clobber, env) ==
    IF ~installed THEN Outcome(f, 0, Raised("ImportError"))
    ELSE LET r == fetch(self, f, TRUE, env)
         IN  IF ~r.result.ok THEN r
             ELSE [r EXCEPT !.result = pyfits_open(r.fs)]

open_fetching_first(self, installed, f, clobber, env) ==
    LET r == fetch(self, f, clobber, env)
    IN  IF ~r.result.ok THEN r
        ELSE IF ~installed THEN [r EXCEPT !.result = Raised("ImportError")]
        ELSE [r EXCEPT !.result = pyfits_open(r.fs)]

\* _datafile.open(clobber)
open(self, installed, f, clobber, env) ==
    IF ~installed THEN Outcome(f, 0, Raised("ImportError"))
    ELSE LET r == fetch(self, f, clobber, env)
         IN  IF ~r.result.ok THEN r
             ELSE [r EXCEPT !.result = pyfits_open(r.fs)]

CacheRow ==
    [ktc_kepler_id |-> 9787239,
     sci_data_set_name |-> <<"K", "P", "1">>,
     ktc_target_type |-> <<"LC">>]

CacheRoot == <<"/", "home", "/", "data">>

InitCache ==
    /\ data_root = CacheRoot
    /\ cls \in DataFileClasses
    /\ row = CacheRow
    /\ record = datafile__init__(cls, data_root, row)
    /\ munged = NotBuilt
    /\ fs \in {NoFs} \cup {[dir |-> TRUE, exists |-> TRUE, data |-> b] : b \in Bodies}
    /\ requests = 0
    /\ calls = <<>>
    /\ pyfits \in BOOLEAN
    /\ Idle

\* the two most recent entries of a history
Recent(history) == IF Len(history) > 2 THEN Tail(history) ELSE history

\* one entry of the history
Call(op, clobber, env, out) ==
    [op |-> op,
     clobber |-> clobber,
     before |-> fs,
     after |-> out.fs,
     requests |-> out.requests,
     answered |-> out.requests > 0 /\ env.answers,
     status |-> IF out.requests > 0 /\ env.answers THEN env.status ELSE 0,
     result |-> out.result]

Fetch(clobber, env) ==
    /\ requests < MaxRequests
    /\ LET out == fetch(record, fs, clobber, env)
       IN  /\ fs' = out.fs
           /\ requests' = requests + out.requests
           /\ calls' = Recent(Append(calls, Call("fetch", clobber, env, out)))
    /\ UNCHANGED <<data_root, cls, row, record, munged, pyfits, environ, modules, pc>>

Open(clobber, env) ==
    /\ requests < MaxRequests
    /\ LET out == open(record, pyfits, fs, clobber, env)
       IN  /\ fs' = out.fs
           /\ requests' = requests + out.requests
           /\ calls' = Recent(Append(calls, Call("open", clobber, env, out)))
    /\ UNCHANGED <<data_root, cls, row, record, munged, pyfits, environ, modules, pc>>

NextCache ==
    \E clobber \in BOOLEAN, env \in Envs :
        \/ Fetch(clobber, env)
        \/ Open(clobber, env)

SpecCache == InitCache /\ [][NextCache]_vars

(***************************************************************************)
(* Claims about the file cache.                                            *)
(***************************************************************************)
\* C1: fetch with clobber=False while the local file exists returns without
\* issuing an HTTP request and without changing any file or directory.
C1_CachedFetchIsFree ==
    \A i \in DOMAIN calls :
        (calls[i].op = "fetch" /\ ~calls[i].clobber /\ calls[i].before.exists) =>
            /\ calls[i].result = Returned("self")
            /\ calls[i].requests = 0
            /\ calls[i].after = calls[i].before

\* a fetch(clobber=False) has run while the file existed
C1_Witness ==
    \E i \in DOMAIN calls :
        /\ calls[i].op = "fetch"
        /\ ~calls[i].clobber
        /\ calls[i].before.exists
        /\ calls[i].result.ok

TwoPlainFetches ==
    /\ Len(calls) = 2
    /\ \A i \in 1..2 : calls[i].op = "fetch" /\ ~calls[i].clobber

\* C2 as stated: two fetch(clobber=False) calls in a row issue exactly one
\* HTTP request in total, whatever the initial state of the cache.
C2_ExactlyOneRequest ==
    TwoPlainFetches => calls[1].requests + calls[2].requests = 1

\* C2 as amended: when the first of two fetch(clobber=False) calls in a row
\* returns normally, the second issues no request, and the first issues one
\* request if the file was absent before it and none if it was present.
C2_SecondFetchIsFree ==
    (TwoPlainFetches /\ calls[1].result.ok) =>
        /\ calls[2].requests = 0
        /\ calls[1].requests = (IF calls[1].before.exists THEN 0 ELSE 1)

\* the file was absent, the first fetch downloaded it and a second one followed
C2_Witness ==
    /\ TwoPlainFetches
    /\ ~calls[1].before.exists
    /\ calls[1].result.ok
    /\ calls[1].requests = 1
    /\ calls[2].result.ok

\* C3: while the local file exists, no fetch or open call made with
\* clobber=False changes it or removes it.
C3_PresentStaysPresent ==
    [][(fs.exists /\ ~calls'[Len(calls')].clobber) => fs' = fs]_vars

\* a fetch and then an open, both with clobber=False, have run on an existing
\* file
C3_Witness ==
    /\ Len(calls) = 2
    /\ calls[1].op = "fetch" /\ ~calls[1].clobber /\ calls[1].before.exists
    /\ calls[2].op = "open" /\ ~calls[2].clobber /\ calls[2].result.ok
    /\ fs = calls[1].before

\* C4: whenever fetch returns normally, a file exists at the local filename
\* and holds a complete download, so that opening it succeeds.
C4_ReturnedFileIsComplete ==
    \A i \in DOMAIN calls :
        (calls[i].op = "fetch" /\ calls[i].result.ok) =>
            /\ calls[i].after.exists
            /\ calls[i].after.data \in Bodies
            /\ pyfits_open(calls[i].after).ok

\* C5: when fetch downloads and the server answers with a status other than
\* 200, fetch fails with a request error carrying that status and the URL.
C5_BadStatusFails ==
    \A i \in DOMAIN calls :
        (calls[i].op = "fetch" /\ calls[i].answered /\ calls[i].status # 200) =>
            /\ ~calls[i].result.ok
            /\ calls[i].result.error \in {"APIError", "HTTPError"}
            /\ calls[i].result.code = calls[i].status
            /\ calls[i].result.url = url(record)

\* a clobbering fetch got 204 on an existing file, and a fetch got 404
C5_Witness ==
    /\ Len(calls) = 2
    /\ calls[1].op = "fetch" /\ calls[1].clobber /\ calls[1].before.exists
    /\ calls[1].status = 204 /\ calls[1].result.error = "APIError"
    /\ calls[2].op = "fetch" /\ calls[2].status = 404

(***************************************************************************)
(* Record construction: the subclasses of api.Model, and mast.APIModel     *)
(* with the declared parameters of mast.KOI.                               *)
(***************************************************************************)
\* KOI.__init__, Planet.__init__, Star.__init__ after Model.__init__
Model_subclass__init__(c, params) ==
    LET m == Model__init__(c, params)
    IN  IF ~m.ok THEN m
        ELSE CASE c = "KOI" ->
                    [m EXCEPT !.attrs = Override(m.attrs, [_star |-> None])]
               [] c = "Planet" ->
                    [m EXCEPT !.attrs =
                        Override(m.attrs, [_koi |-> None, _star |-> None])]
               [] c = "Star" ->
                    [m EXCEPT !.attrs =
                        Override(m.attrs, [kepid |-> m.attrs["kic_kepler_id"],
                                           _kois |-> None])]
               [] OTHER -> m

\* mast.KOI._parameters: response key -> (attribute name, type)
KOI_parameters ==
    [k \in {"Kepler ID", "KOI Name", "KOI Number"} |->
        CASE k = "Kepler ID" -> <<"kepid", "int">>
          [] k = "KOI Name" -> <<"kepoi_name", "unicode">>
          [] OTHER -> <<"kepoi", "unicode">>]

\* unicode(v)
unicode(v) ==
    IF v.t = "str" THEN Returned(v) ELSE Returned(PyStr(<<v.t>>))

Convert(type, v) == IF type = "int" THEN int(v) ELSE unicode(v)

\* mast.APIModel.__init__ of mast.KOI: declared keys are converted (a missing
\* key is logged and skipped, a ValueError stores None), then
\* _id.format(**self._values) with _id = "{kepoi}"
APIModel__init__(c, params) ==
    LET P == KOI_parameters
        present == {k \in DOMAIN P : k \in DOMAIN params}
        conv(k) == Convert(P[k][2], params[k])
        failed == {k \in present : ~conv(k).ok /\ conv(k).error # "ValueError"}
        names == {P[k][1] : k \in present}
        key(a) == CHOOSE k \in present : P[k][1] = a
        values == [a \in names |->
                      IF conv(key(a)).ok THEN conv(key(a)).value ELSE None]
    IN  IF failed # {} THEN Error(conv(CHOOSE k \in failed : TRUE).error)
        ELSE IF "kepoi" \notin names THEN Error("KeyError")
        ELSE [ok |-> TRUE,
              cls |-> c,
              params |-> params,
              attrs |-> values,
              name |-> <<values["kepoi"]>>]

FieldValues == {PyInt(9787239), PyStr(<<"K", "1">>), None}

ModelFields == {"kepoi_name", "kepler_name", "kic_kepler_id", "kepid"}

MastFields == {"Kepler ID", "KOI Number", "Condition flag"}

MastValues == {PyStr(<<"6">>), PyStr(<<"x">>)}

ModelRows == UNION {[S -> FieldValues] : S \in SUBSET ModelFields}

MastRows == UNION {[S -> MastValues] : S \in SUBSET MastFields}

InitModel ==
    /\ \/ cls \in ModelClasses /\ row \in ModelRows
       \/ cls = "mast.KOI" /\ row \in MastRows
    /\ record = NotBuilt
    /\ munged = NotBuilt
    /\ data_root = CacheRoot
    /\ fs = NoFs
    /\ requests = 0
    /\ calls = <<>>
    /\ pyfits = TRUE
    /\ Idle

\* KOI(api, row), Planet(api, row), Star(api, row), TestModel(api, row)
ConstructModel ==
    /\ record = NotBuilt
    /\ cls \in ModelClasses
    /\ record' = Model_subclass__init__(cls, row)
    /\ UNCHANGED <<data_root, cls, row, munged, fs, requests, calls, pyfits, environ, modules, pc>>

\* mast.KOI(row)
ConstructAPIModel ==
    /\ record = NotBuilt
    /\ cls = "mast.KOI"
    /\ record' = APIModel__init__(cls, row)
    /\ UNCHANGED <<data_root, cls, row, munged, fs, requests, calls, pyfits, environ, modules, pc>>

NextModel == ConstructModel \/ ConstructAPIModel

SpecModel == InitModel /\ [][NextModel]_vars

(***************************************************************************)
(* Claims about record construction.                                       *)
(***************************************************************************)
\* attributes a constructor sets besides the fields of the row
Defaults(c) ==
    CASE c = "KOI" -> {"_star"}
      [] c = "Planet" -> {"_koi", "_star"}
      [] c = "Star" -> {"_kois", "kepid"}
      [] OTHER -> {}

\* the name under which a record exposes the row's field k
MappedName(c, k) ==
    IF c = "mast.KOI"
    THEN (IF k \in DOMAIN KOI_parameters THEN KOI_parameters[k][1] ELSE k)
    ELSE k

\* the value a record exposes for the row's field k
CoercedValue(c, k, v) ==
    IF c = "mast.KOI" /\ k \in DOMAIN KOI_parameters
    THEN (LET x == Convert(KOI_parameters[k][2], v)
          IN  IF x.ok THEN x.value ELSE None)
    ELSE v

\* C10: a record constructed from a row exposes every field of the row under
\* its mapped name with its coerced value, exposes nothing else but defaults,
\* and construction succeeds for rows in which fields are missing.
C10_RecordExposesRow ==
    record # NotBuilt =>
        /\ record.ok
        /\ \A k \in DOMAIN row :
              /\ MappedName(cls, k) \in DOMAIN record.attrs
              /\ (MappedName(cls, k) \notin Defaults(cls)) =>
                    record.attrs[MappedName(cls, k)] = CoercedValue(cls, k, row[k])
        /\ \A a \in DOMAIN record.attrs :
              a \in {MappedName(cls, k) : k \in DOMAIN row} \cup Defaults(cls)

(***************************************************************************)
(* The query client: API.ea_request and API.mast_request of api.py, and    *)
(* API.request of mast.py.                                                 *)
(*                                                                         *)
(* Parameters are a function from names to PyStr / PyInt values.  A        *)
(* request is the URL it goes to and its encoded parameters, kept as a     *)
(* function from names to encoded text: both the body sent and the URL     *)
(* reported in an error are built from the same list, so its order is left *)
(* out.                                                                    *)
(***************************************************************************)
ea_url ==
    <<"http://exoplanetarchive.ipac.caltech.edu/cgi-bin/nstedAPI/nph-nstedAPI">>

mast_url(category) ==
    <<"http://archive.stsci.edu/kepler/", category, "/search.php">>

\* the "%XX" form of the atoms of the model that are not unreserved
PercentEscape(c) ==
    CASE c = "'" -> "%27"
      [] c = "+" -> "%2B"
      [] c = "=" -> "%3D"
      [] c = "\n" -> "%0A"
      [] OTHER -> c

\* urllib.quote_plus(text, safe)
quote_plus(text, safe) ==
    [i \in 1..Len(text) |->
        IF text[i] = " " THEN "+"
        ELSE IF text[i] \in safe THEN text[i]
        ELSE PercentEscape(text[i])]

\* str(v) of a parameter value
Str(v) == IF v.t = "int" THEN Digits(v.v) ELSE v.s

\* ["{0}={1}".format(k, urllib.quote_plus(v, "\"'+")) for k, v in params.items()]
ea_payload(params) ==
    [k \in DOMAIN params |-> quote_plus(params[k].s, {"\"", "'", "+"})]

\* urllib.urlencode(params)
urlencode(params) ==
    [k \in DOMAIN params |-> quote_plus(Str(params[k]), {})]

\* handler.geturl() + "?" + the encoded parameters
FullUrl(u, query) == [url |-> u, query |-> query]

NoSort == [kind |-> "none"]
SortBy(col) == [kind |-> "str", col |-> col]
SortPair(col, dir) == [kind |-> "pair", col |-> col, dir |-> dir]

\* what a call did: the requests it sent, in order, and what the caller gets
Reply(sent, res) == [sent |-> sent, result |-> res]

HasErrorMarker(txt) ==
    \E i \in DOMAIN txt : \E j \in DOMAIN txt[i] : "ERROR" \in Range(txt[i][j])

\* dict(zip(columns, line.split(",")))
ZipRow(columns, cells) ==
    [k \in {columns[i] : i \in 1..Min(Len(columns), Len(cells))} |->
        PyStr(cells[CHOOSE i \in 1..Min(Len(columns), Len(cells)) :
                       /\ columns[i] = k
                       /\ \A j \in (i + 1)..Min(Len(columns), Len(cells)) :
                             columns[j] # k])]

\* the parameters ea_request sends
ea_params(table, sort, params) ==
    LET p == Override(params, [table |-> PyStr(<<table>>)])
    IN  CASE sort.kind = "none" -> p
          [] sort.kind = "str" -> Override(p, [order |-> PyStr(sort.col)])
          [] OTHER ->
                Override(p, [order |-> PyStr(IF sort.dir = -1
                                             THEN sort.col \o <<"+", "desc">>
                                             ELSE sort.col)])

ea_failed_on_status_only(code, txt) == code # HTTP_OK

\* int(code) != 200 or "ERROR" in txt
ea_failed(code, txt) == code # HTTP_OK \/ HasErrorMarker(txt)

\* API.ea_request(table, sort, **params); txt is a sequence of lines, a line a
\* sequence of cells
ea_request(table, sort, params, env) ==
    LET payload == ea_payload(ea_params(table, sort, params))
        sent == <<[url |-> ea_url, data |-> payload]>>
        handler == urlopen(ea_url, env)
    IN  IF ~handler.ok THEN Reply(sent, handler)
        ELSE IF ea_failed(handler.code, handler.body)
        THEN Reply(sent, APIError(handler.code, FullUrl(ea_url, payload),
                                  handler.body))
        ELSE IF Len(handler.body) = 0 THEN Reply(sent, Raised("IndexError"))
        ELSE LET columns == [i \in DOMAIN handler.body[1] |-> handler.body[1][i][1]]
                 lines == Tail(handler.body)
             IN  Reply(sent, Returned(
                    [i \in DOMAIN lines |->
                        munge_dict(ZipRow(columns, lines[i])).value]))

mast_action_forced(params) == PyStr(<<"Search">>)

\* params.get("action", "Search")
mast_action(params) ==
    IF "action" \in DOMAIN params THEN params["action"] ELSE PyStr(<<"Search">>)

\* the parameters mast_request sends
mast_params(sort, params) ==
    LET p == Override(params, [action |-> mast_action(params),
                               outputformat |-> PyStr(<<"JSON">>),
                               coordformat |-> PyStr(<<"dec">>),
                               verb |-> PyInt(3)])
    IN  CASE sort.kind = "none" -> p
          [] sort.kind = "str" -> Override(p, [ordercolumn1 |-> PyStr(sort.col)])
          [] OTHER ->
                IF sort.dir = -1
                THEN Override(p, [ordercolumn1 |-> PyStr(sort.col),
                                  descending1 |-> PyStr(<<"on">>)])
                ELSE Override(p, [ordercolumn1 |-> PyStr(sort.col)])

\* json.loads(txt): the body of a response is its text and, when the text is
\* JSON, the rows it decodes to
json_loads(body) ==
    IF body.valid THEN Returned(body.rows) ELSE Raised("ValueError")

\* mast.planet_adapter, mast.star_adapter, mast.dataset_adapter: the typed
\* record of a row, each value coerced as the record adapter coerces it
adapter_row(adapter, r) == munge_dict(r)

\* adapter(row), or self._munge_dict(row) if no adapter was provided
convert_row(adapter, r) ==
    IF adapter = "none" THEN munge_dict(r) ELSE adapter_row(adapter, r)

\* API.mast_request(category, adapter, sort, **params)
mast_request(category, adapter, sort, params, env) ==
    LET p == mast_params(sort, params)
        u == mast_url(category)
        sent == <<[url |-> u, data |-> urlencode(p)]>>
        handler == urlopen(u, env)
    IN  IF ~handler.ok THEN Reply(sent, handler)
        ELSE IF handler.code # HTTP_OK
        THEN Reply(sent, APIError(handler.code, FullUrl(u, urlencode(p)),
                                  handler.body.text))
        ELSE LET result == json_loads(handler.body)
             IN  IF ~result.ok
                 THEN Reply(sent, APIError(handler.code, FullUrl(u, urlencode(p)),
                                <<"No JSON object could be decoded.", "\n">>
                                    \o handler.body.text))
                 ELSE IF \E i \in DOMAIN result.value :
                            ~convert_row(adapter, result.value[i]).ok
                 THEN Reply(sent, Raised("TypeError"))
                 ELSE Reply(sent, Returned(
                        [i \in DOMAIN result.value |->
                            convert_row(adapter, result.value[i]).value]))

\* the list r.json() decodes
JsonList(rows) == [t |-> "list", rows |-> rows]

\* the parameters API.request of mast.py sends
mast_API_params(params) ==
    LET p == Override(params, [action |-> mast_action(params),
                               outputformat |-> PyStr(<<"JSON">>),
                               coordformat |-> PyStr(<<"dec">>),
                               verb |-> PyInt(3)])
    IN  IF "sort" \in DOMAIN p
        THEN [k \in ((DOMAIN p) \ {"sort"}) \cup {"ordercolumn1"} |->
                 IF k = "ordercolumn1" THEN p["sort"] ELSE p[k]]
        ELSE p

\* API.request(category, **params) of mast.py, on the requests library:
\* raise_for_status() raises for 4xx and 5xx, r.json() raises ValueError for a
\* body that is not JSON
mast_API_request(category, params, env) ==
    LET p == mast_API_params(params)
        u == mast_url(category)
        sent == <<[url |-> u, data |-> urlencode(p)]>>
    IN  IF ~env.answers THEN Reply(sent, Raised("ConnectionError"))
        ELSE IF env.status >= 400
        THEN Reply(sent, [ok |-> FALSE, error |-> "HTTPError",
                          code |-> env.status,
                          url |-> FullUrl(u, urlencode(p))])
        ELSE IF env.body.valid THEN Reply(sent, Returned(JsonList(env.body.rows)))
        ELSE Reply(sent, Returned(None))

(***************************************************************************)
(* Inputs of the query client.                                             *)
(***************************************************************************)
Sorts ==
    {NoSort, SortBy(<<"kepid">>), SortPair(<<"kepid">>, -1), SortPair(<<"kepid">>, 1)}

EaParams ==
    UNION {[S -> {PyStr(<<"kepid", " ", "like", " ", "'", "6", "'">>),
                  PyStr(<<"kepid", "=", "6">>)}] :
              S \in SUBSET {"where", "select"}}

MastParams ==
    UNION {[S -> {PyStr(<<"Help">>), PyInt(1)}] :
              S \in SUBSET {"action", "max_records"}}

Adapters == {"none", "star_adapter"}

Categories == {"kic10", "confirmed_planets"}

Cell(text) == text
Header == <<Cell(<<"kepid">>), Cell(<<"kepoi_name">>)>>

\* lines of a CSV body under Header: full lines, a short line, a line with
\* the marker in a value
EaLines ==
    { <<Cell(<<"6">>), Cell(<<"K", "1">>)>>,
      <<Cell(<<"6">>), Cell(<<"ERROR">>)>>,
      <<Cell(<<"6">>)>> }

RECURSIVE SeqsUpTo(_, _)
\* the sequences over S of length at most n
SeqsUpTo(S, n) ==
    IF n = 0 THEN {<<>>}
    ELSE LET shorter == SeqsUpTo(S, n - 1)
         IN  shorter \cup {Append(q, x) : q \in shorter, x \in S}

\* bodies of the archive service: nothing, an error page, a header with rows
EaBodies ==
    {<<>>, << <<Cell(<<"ERROR", "<br>", "x">>)>> >>}
        \cup {<<Header>> \o ls : ls \in SeqsUpTo(EaLines, MaxRows)}

JsonRows == {[kic_kepler_id |-> PyStr(<<"6">>)], [kic_kepler_id |-> None]}

\* bodies of the catalog-search service: JSON arrays of rows, or other text
MastBodies ==
    {[text |-> <<"json">>, valid |-> TRUE, rows |-> rs] :
        rs \in SeqsUpTo(JsonRows, MaxRows)}
        \cup {[text |-> <<"<html>">>, valid |-> FALSE, rows |-> <<>>]}

ReplyEnvs(bodies) ==
    [answers : {FALSE}, status : {HTTP_OK}, body : {CHOOSE b \in bodies : TRUE}]
        \cup [answers : {TRUE}, status : Statuses, body : bodies]

InitRequest ==
    /\ data_root = CacheRoot
    /\ cls = "API"
    /\ row = <<>>
    /\ record = NotBuilt
    /\ munged = NotBuilt
    /\ fs = NoFs
    /\ requests = 0
    /\ calls = <<>>
    /\ pyfits = TRUE
    /\ Idle

\* the state after a call that ended as reply
AfterCall(op, args, env, reply) ==
    /\ calls' = <<[op |-> op,
                   args |-> args,
                   answered |-> env.answers,
                   status |-> env.status,
                   body |-> env.body,
                   sent |-> reply.sent,
                   result |-> reply.result]>>
    /\ requests' = requests + Len(reply.sent)

\* api.ea_request(table, sort=sort, **params)
EaRequest(sort, params, env) ==
    /\ calls = <<>>
    /\ AfterCall("ea_request", [sort |-> sort, params |-> params], env,
                 ea_request("cumulative", sort, params, env))
    /\ UNCHANGED <<data_root, cls, row, record, munged, fs, pyfits, environ, modules, pc>>

\* api.mast_request(category, adapter=adapter, sort=sort, **params)
MastRequest(category, adapter, sort, params, env) ==
    /\ calls = <<>>
    /\ AfterCall("mast_request",
                 [adapter |-> adapter, sort |-> sort, params |-> params], env,
                 mast_request(category, adapter, sort, params, env))
    /\ UNCHANGED <<data_root, cls, row, record, munged, fs, pyfits, environ, modules, pc>>

\* mast.API().request(category, **params)
MastAPIRequest(category, params, env) ==
    /\ calls = <<>>
    /\ AfterCall("mast.request", [sort |-> NoSort, params |-> params], env,
                 mast_API_request(category, params, env))
    /\ UNCHANGED <<data_root, cls, row, record, munged, fs, pyfits, environ, modules, pc>>

\* one call on a fresh client: no request operation reads or writes state
\* that an earlier call left behind
NextRequest ==
    \/ /\ calls = <<>>
       /\ \E sort \in Sorts, params \in EaParams, env \in ReplyEnvs(EaBodies) :
             EaRequest(sort, params, env)
    \/ /\ calls = <<>>
       /\ \E category \in Categories, adapter \in Adapters, sort \in Sorts,
             params \in MastParams, env \in ReplyEnvs(MastBodies) :
             MastRequest(category, adapter, sort, params, env)
    \/ /\ calls = <<>>
       /\ \E category \in Categories, params \in MastParams,
             env \in ReplyEnvs(MastBodies) :
             MastAPIRequest(category, params, env)

SpecRequest == InitRequest /\ [][NextRequest]_vars

(***************************************************************************)
(* Claims about the query client.                                          *)
(***************************************************************************)
\* the URL an error should report: where the request went, with what it sent
ReportedUrl(c) == FullUrl(c.sent[1].url, c.sent[1].data)

\* C11: when the archive service answers 200 with a body holding the marker
\* "ERROR", ea_request returns no records and fails with an APIError carrying
\* the status, the endpoint with the encoded parameters, and the whole body.
C11_ErrorMarkerFails ==
    \A i \in DOMAIN calls :
        (/\ calls[i].op = "ea_request"
         /\ calls[i].answered
         /\ calls[i].status = 200
         /\ HasErrorMarker(calls[i].body)) =>
            /\ Len(calls[i].sent) = 1
            /\ calls[i].sent[1].url = ea_url
            /\ DOMAIN calls[i].args.params \subseteq DOMAIN calls[i].sent[1].data
            /\ calls[i].result = APIError(200, ReportedUrl(calls[i]), calls[i].body)

\* a 200 answer whose body is the service's error page, to a call with
\* parameters
C11_Witness ==
    /\ Len(calls) = 1
    /\ calls[1].op = "ea_request"
    /\ calls[1].answered /\ calls[1].status = 200
    /\ calls[1].body = << <<Cell(<<"ERROR", "<br>", "x">>)>> >>
    /\ "where" \in DOMAIN calls[1].args.params
    /\ ~calls[1].result.ok

\* the text of a response body
BodyText(c) == IF c.op = "ea_request" THEN c.body ELSE c.body.text

\* C12: for ea_request and mast_request, a status other than 200 makes the
\* call fail with an error carrying the status, the request URL with its
\* parameters, and the body text.
C12_BadStatusCarriesAll ==
    \A i \in DOMAIN calls :
        (/\ calls[i].op \in {"ea_request", "mast_request"}
         /\ calls[i].answered
         /\ calls[i].status # 200) =>
            /\ ~calls[i].result.ok
            /\ calls[i].result.code = calls[i].status
            /\ calls[i].result.error = "APIError"   \* else the URL is the bare one
            /\ calls[i].result.url = ReportedUrl(calls[i])
            /\ calls[i].result.txt = BodyText(calls[i])

\* C13: when the catalog-search service answers 200 with a body that is not
\* JSON, the request fails with a request error that includes the response
\* text, and returns nothing.
C13_BadJsonFails ==
    \A i \in DOMAIN calls :
        (/\ calls[i].op \in {"mast_request", "mast.request"}
         /\ calls[i].answered
         /\ calls[i].status = 200
         /\ ~calls[i].body.valid) =>
            /\ ~calls[i].result.ok
            /\ calls[i].result.error = "APIError"
            /\ \E k \in 0..Len(calls[i].result.txt) :
                  SubSeq(calls[i].result.txt, k + 1, Len(calls[i].result.txt))
                      = calls[i].body.text

IsMastCall(c) == c.op \in {"mast_request", "mast.request"}

\* C14 as stated: every request to the catalog-search service carries
\* action=Search, outputformat=JSON, coordformat=dec and verb=3, whatever the
\* caller passes.
C14_FixedParameters ==
    \A i \in DOMAIN calls :
        IsMastCall(calls[i]) =>
            /\ calls[i].sent[1].data["action"] = <<"Search">>
            /\ calls[i].sent[1].data["outputformat"] = <<"JSON">>
            /\ calls[i].sent[1].data["coordformat"] = <<"dec">>
            /\ calls[i].sent[1].data["verb"] = <<"3">>

\* C14 as amended: every such request carries outputformat=JSON,
\* coordformat=dec and verb=3; it carries the caller's action if the caller
\* passes one, and action=Search otherwise.
C14_FixedUnlessActionPassed ==
    \A i \in DOMAIN calls :
        IsMastCall(calls[i]) =>
            /\ calls[i].sent[1].data["outputformat"] = <<"JSON">>
            /\ calls[i].sent[1].data["coordformat"] = <<"dec">>
            /\ calls[i].sent[1].data["verb"] = <<"3">>
            /\ calls[i].sent[1].data["action"] =
                  (IF "action" \in DOMAIN calls[i].args.params
                   THEN quote_plus(Str(calls[i].args.params["action"]), {})
                   ELSE <<"Search">>)

\* a request whose caller passed its own action and a record cap
C14_Witness ==
    /\ Len(calls) = 1
    /\ calls[1].op = "mast_request"
    /\ DOMAIN calls[1].args.params = {"action", "max_records"}
    /\ calls[1].args.params["action"] = PyStr(<<"Help">>)
    /\ calls[1].sent[1].data["action"] = <<"Help">>

(***************************************************************************)
(* Lookups: kois, koi, planets, planet, stars, star.                       *)
(***************************************************************************)
\* "{0:08.2f}".format(x) for x = n / 10^KOI_DECIMALS, n >= 0
Format08_2f(n) ==
    LET whole == Digits(n \div Pow10(KOI_DECIMALS))
        frac == Digits(n % Pow10(KOI_DECIMALS))
        decimals == [i \in 1..(KOI_DECIMALS - Len(frac)) |-> "0"] \o frac
        body == whole \o <<".">> \o decimals
    IN  IF Len(body) >= KOI_WIDTH THEN body
        ELSE [i \in 1..(KOI_WIDTH - Len(body)) |-> "0"] \o body

\* "kepoi_name+like+'K{0:08.2f}'".format(float(koi_number))
koi_where(koi_number) ==
    <<"kepoi_name", "+", "like", "+", "'", "K">>
        \o Format08_2f(koi_number.n) \o <<"'">>

\* raise ValueError("No ... found with ...: '{0}'".format(id))
not_found(what, id) ==
    [ok |-> FALSE, error |-> "ValueError", msg |-> what, id |-> id]

first_record_or_empty(records, err) ==
    IF Len(records) = 0 THEN Returned(<<>>) ELSE Returned(records[1])

\* if not len(records): raise ...; return records[0]
first_record(records, err) ==
    IF Len(records) = 0 THEN err ELSE Returned(records[1])

\* [KOI(self, k) for k in rows], [Planet(self, p) ...], [Star(self, s) ...]
Records(c, reply) ==
    IF ~reply.result.ok THEN reply
    ELSE LET rs == [i \in DOMAIN reply.result.value |->
                       Model_subclass__init__(c, reply.result.value[i])]
         IN  IF \E i \in DOMAIN rs : ~rs[i].ok
             THEN Reply(reply.sent,
                        Raised(rs[CHOOSE i \in DOMAIN rs : ~rs[i].ok].error))
             ELSE Reply(reply.sent, Returned(rs))

Lookup_or_none(reply, err) ==
    IF ~reply.result.ok THEN reply
    ELSE IF Len(reply.result.value) = 0 THEN Reply(reply.sent, Returned(None))
    ELSE Reply(reply.sent, Returned(reply.result.value[1]))

\* the one record of a search, or the error of the search when it failed
Lookup(reply, err) ==
    IF ~reply.result.ok THEN reply
    ELSE Reply(reply.sent, first_record(reply.result.value, err))

\* API.kois(**params)
kois(params, env) == Records("KOI", ea_request("cumulative", NoSort, params, env))

\* API.koi(koi_number)
koi(koi_number, env) ==
    Lookup(kois([where |-> PyStr(koi_where(koi_number))], env),
           not_found("No KOI found with the number", koi_number))

\* API.planets(**params)
planets(params, env) ==
    Records("Planet",
            mast_request("confirmed_planets", "planet_adapter", NoSort, params, env))

Letters ==
    {"a", "b", "c", "d", "e", "f", "g", "h", "i", "j", "k", "l", "m",
     "n", "o", "p", "q", "r", "s", "t", "u", "v", "w", "x", "y", "z",
     "A", "B", "C", "D", "E", "F", "G", "H", "I", "J", "K", "L", "M",
     "N", "O", "P", "Q", "R", "S", "T", "U", "V", "W", "X", "Y", "Z"}

\* [-\s]
Separators == {"-", " ", "\t", "\n"}

RECURSIVE RunEnd(_, _, _)
\* the index after the longest run from i of characters of the class S
RunEnd(name, i, S) ==
    IF i <= Len(name) /\ name[i] \in S THEN RunEnd(name, i + 1, S) ELSE i

\* the match of "([0-9]+)[-\s]*([a-zA-Z])" that starts at i, if there is one
MatchAt(name, i) ==
    LET d == RunEnd(name, i, Range(DigitChars))
        l == RunEnd(name, d, Separators)
    IN  IF d > i /\ l <= Len(name) /\ name[l] \in Letters
        THEN [found |-> TRUE, groups |-> <<SubSeq(name, i, d - 1), name[l]>>,
              end |-> l]
        ELSE [found |-> FALSE]

RECURSIVE FindAllFrom(_, _)
\* the non-overlapping matches from i on, leftmost first
FindAllFrom(name, i) ==
    IF i > Len(name) THEN <<>>
    ELSE LET m == MatchAt(name, i)
         IN  IF m.found THEN <<m.groups>> \o FindAllFrom(name, m.end + 1)
             ELSE FindAllFrom(name, i + 1)

\* re.findall("([0-9]+)[-\s]*([a-zA-Z])", name)
findall(name) == FindAllFrom(name, 1)

name_valid_lenient(matches) == Len(matches) >= 1

\* not (len(matches) != 1)
name_valid(matches) == Len(matches) = 1

\* "Kepler-{0} {1}".format(*(matches[0]))
kepler_name(match) == <<"Kepler-">> \o match[1] \o <<" ", match[2]>>

\* API.planet(name)
planet(name, env) ==
    LET matches == findall(name)
    IN  IF ~name_valid(matches)
        THEN Reply(<<>>, [ok |-> FALSE, error |-> "ValueError",
                          msg |-> "Invalid planet name", id |-> name])
        ELSE Lookup(planets([kepler_name |-> PyStr(kepler_name(matches[1])),
                             max_records |-> PyInt(1)], env),
                    not_found("No planet found with the name",
                              kepler_name(matches[1])))

\* API.stars(**params)
stars(params, env) ==
    LET p == Override(params,
                      [max_records |->
                          IF "max_records" \in DOMAIN params
                          THEN params["max_records"]
                          ELSE PyInt(STARS_MAX_RECORDS)])
    IN  Records("Star", mast_request("kic10", "star_adapter", NoSort, p, env))

star_params_uncapped(kepid) == [kic_kepler_id |-> kepid]

\* kic_kepler_id=kepid, max_records=1
star_params(kepid) == [kic_kepler_id |-> kepid, max_records |-> PyInt(1)]

\* API.star(kepid)
star(kepid, env) ==
    Lookup(stars(star_params(kepid), env),
           not_found("No KIC target found with id", kepid))

\* mast.Planet(p): the declared key "Planet Name" names the record
mast_Planet(p) ==
    IF "Planet Name" \notin DOMAIN p THEN Error("KeyError")
    ELSE [ok |-> TRUE, cls |-> "mast.Planet", params |-> p,
          name |-> <<p["Planet Name"]>>]

\* API.planet(name) of mast.py: the first record planets() yields
mast_planet(name, env) ==
    LET matches == findall(name)
        canonical == kepler_name(matches[1])
        reply == mast_API_request("confirmed_planets",
                                  [kepler_name |-> PyStr(canonical),
                                   max_records |-> PyInt(1)], env)
        missing == not_found("No planet found with the name", canonical)
    IN  IF ~name_valid(matches)
        THEN Reply(<<>>, [ok |-> FALSE, error |-> "ValueError",
                          msg |-> "Invalid planet name", id |-> name])
        ELSE IF ~reply.result.ok THEN reply
        ELSE IF reply.result.value = None THEN Reply(reply.sent, missing)
        ELSE IF Len(reply.result.value.rows) = 0 THEN Reply(reply.sent, missing)
        ELSE Reply(reply.sent, mast_Planet(reply.result.value.rows[1]))

(***************************************************************************)
(* Inputs of the lookups.                                                  *)
(***************************************************************************)
KoiNumbers == {PyFloat(101, KOI_DECIMALS), PyFloat(14501, KOI_DECIMALS)}

StarIds == {PyInt(6), PyInt(9787239)}

NameChars == {"6", "2", "b", "-", " "}

\* the names of at most MaxNameLen characters
PlanetNames == SeqsUpTo(NameChars, MaxNameLen)

KoiLines == { <<Cell(<<"6">>), Cell(<<"K", "1">>)>>,
              <<Cell(<<"7">>), Cell(<<"K", "2">>)>> }

KoiBodies ==
    {<<>>, << <<Cell(<<"ERROR", "<br>", "x">>)>> >>}
        \cup {<<Header>> \o ls : ls \in SeqsUpTo(KoiLines, MaxRows)}

StarRows == {[kic_kepler_id |-> PyStr(<<"6">>)], [kic_kepler_id |-> PyStr(<<"7">>)]}

PlanetRows ==
    {[kepler_name |-> PyStr(<<"Kepler-", "6", " ", "b">>),
      kepid |-> PyStr(<<"6">>),
      koi_number |-> PyStr(<<"1", ".", "0", "1">>)]}

MastPlanetRows ==
    {[k \in {"Planet Name"} |-> PyStr(<<"Kepler-", "6", " ", "b">>)]}

JsonBodies(rows) ==
    {[text |-> <<"json">>, valid |-> TRUE, rows |-> rs] :
        rs \in SeqsUpTo(rows, MaxRows)}
        \cup {[text |-> <<"<html>">>, valid |-> FALSE, rows |-> <<>>]}

\* the answers to a lookup by name: no answer, a 404, or a 200 with a body
LookupEnvs(bodies) ==
    {e \in ReplyEnvs(bodies) :
        \/ e.status = HTTP_OK
        \/ e.status = 404 /\ e.body = (CHOOSE b \in bodies : TRUE)}

\* API.koi(koi_number)
Koi(koi_number, env) ==
    /\ calls = <<>>
    /\ AfterCall("koi", [id |-> koi_number], env,
                 koi(koi_number, env))
    /\ UNCHANGED <<data_root, cls, row, record, munged, fs, pyfits, environ, modules, pc>>

\* a header whose first column is the identifier, with a full line and a
\* line cut short after its first value
KoisHeader == <<Cell(<<"kepoi_name">>), Cell(<<"kepid">>)>>

KoisLines == { <<Cell(<<"K", "1">>), Cell(<<"6">>)>>, <<Cell(<<"K", "2">>)>> }

KoisBodies ==
    {<< <<Cell(<<"ERROR", "<br>", "x">>)>> >>}
        \cup {<<KoisHeader>> \o ls : ls \in SeqsUpTo(KoisLines, MaxRows)}

\* API.kois(where=...)
Kois(where, env) ==
    /\ calls = <<>>
    /\ AfterCall("kois", [id |-> where], env,
                 kois([where |-> where], env))
    /\ UNCHANGED <<data_root, cls, row, record, munged, fs, pyfits, environ, modules, pc>>

\* API.star(kepid)
StarLookup(kepid, env) ==
    /\ calls = <<>>
    /\ AfterCall("star", [id |-> kepid], env,
                 star(kepid, env))
    /\ UNCHANGED <<data_root, cls, row, record, munged, fs, pyfits, environ, modules, pc>>

\* API.planet(name)
PlanetLookup(name, env) ==
    /\ calls = <<>>
    /\ AfterCall("planet", [id |-> name], env,
                 planet(name, env))
    /\ UNCHANGED <<data_root, cls, row, record, munged, fs, pyfits, environ, modules, pc>>

\* mast.API().planet(name)
MastPlanetLookup(name, env) ==
    /\ calls = <<>>
    /\ AfterCall("mast.planet", [id |-> name], env,
                 mast_planet(name, env))
    /\ UNCHANGED <<data_root, cls, row, record, munged, fs, pyfits, environ, modules, pc>>

\* one lookup on a fresh client
NextLookup ==
    \/ /\ calls = <<>>
       /\ \E koi_number \in KoiNumbers, env \in ReplyEnvs(KoiBodies) :
             Koi(koi_number, env)
    \/ /\ calls = <<>>
       /\ \E env \in LookupEnvs(KoisBodies) :
             Kois(PyStr(<<"kepid", ">", "5">>), env)
    \/ /\ calls = <<>>
       /\ \E kepid \in StarIds, env \in ReplyEnvs(JsonBodies(StarRows)) :
             StarLookup(kepid, env)
    \/ /\ calls = <<>>
       /\ \E name \in PlanetNames, env \in LookupEnvs(JsonBodies(PlanetRows)) :
             PlanetLookup(name, env)
    \/ /\ calls = <<>>
       /\ \E name \in PlanetNames, env \in LookupEnvs(JsonBodies(MastPlanetRows)) :
             MastPlanetLookup(name, env)

SpecLookup == InitRequest /\ [][NextLookup]_vars

(***************************************************************************)
(* Claims about the lookups.                                               *)
(***************************************************************************)
LookupOps == {"koi", "star", "planet"}

\* the service answered the search of the call with a table of no rows
ZeroRows(c) ==
    /\ Len(c.sent) = 1
    /\ c.answered
    /\ c.status = 200
    /\ IF c.op = "koi" THEN c.body = <<Header>>
       ELSE c.body.valid /\ Len(c.body.rows) = 0

\* the identifier a lookup searches for: the number, the id, the canonical name
Searched(c) ==
    IF c.op = "planet" THEN kepler_name(findall(c.args.id)[1]) ELSE c.args.id

\* C15: a lookup of one record (koi, star, planet) whose search returns zero
\* rows raises a not-found error carrying the identifier searched for; it
\* returns nothing, and the error is not of the kind of the request errors.
C15_ZeroRowsIsNotFound ==
    \A i \in DOMAIN calls :
        (calls[i].op \in LookupOps /\ ZeroRows(calls[i])) =>
            /\ ~calls[i].result.ok
            /\ calls[i].result.error = "ValueError"
            /\ calls[i].result.error \notin {"APIError", "HTTPError", "URLError"}
            /\ calls[i].result.msg # "Invalid planet name"
            /\ calls[i].result.id = Searched(calls[i])

\* star 9787239 was searched for and the service had no row for it
C15_Witness ==
    /\ Len(calls) = 1
    /\ calls[1].op = "star"
    /\ calls[1].args.id = PyInt(9787239)
    /\ ZeroRows(calls[1])
    /\ calls[1].result.id = PyInt(9787239)

\* C16 as stated: each of the lookups koi, star and planet issues a search
\* request constrained to return at most one record.
C16_SearchCapped ==
    \A i \in DOMAIN calls :
        (calls[i].op \in LookupOps /\ Len(calls[i].sent) = 1) =>
            /\ "max_records" \in DOMAIN calls[i].sent[1].data
            /\ calls[i].sent[1].data["max_records"] = <<"1">>

\* C16 as amended: star and planet issue a search with max_records=1; koi
\* issues a search filtered by the name of the KOI with no cap on the number
\* of records, and returns the first record of the answer.
C16_StarAndPlanetCapped ==
    \A i \in DOMAIN calls :
        (calls[i].op \in LookupOps /\ Len(calls[i].sent) = 1) =>
            IF calls[i].op = "koi"
            THEN /\ DOMAIN calls[i].sent[1].data = {"table", "where"}
                 /\ calls[i].sent[1].data["where"] =
                        <<"kepoi_name", "+", "like", "+", "'", "K">>
                            \o Format08_2f(calls[i].args.id.n) \o <<"'">>
                 /\ calls[i].result.ok =>
                        /\ Len(calls[i].body) > 1
                        /\ calls[i].result.value.params["kepoi_name"]
                               = PyStr(calls[i].body[2][2])
            ELSE /\ "max_records" \in DOMAIN calls[i].sent[1].data
                 /\ calls[i].sent[1].data["max_records"] = <<"1">>

\* koi 145.01 was looked up and the service answered with two rows
C16_Witness ==
    /\ Len(calls) = 1
    /\ calls[1].op = "koi"
    /\ calls[1].args.id = PyFloat(14501, KOI_DECIMALS)
    /\ calls[1].sent[1].data["where"] =
          <<"kepoi_name", "+", "like", "+", "'", "K",
            "0", "0", "1", "4", "5", ".", "0", "1", "'">>
    /\ Len(calls[1].body) = 3
    /\ calls[1].result.ok

PlanetOps == {"planet", "mast.planet"}

\* C17: planet(name) extracts the (digit-group, letter) pairs of name; with
\* exactly one pair (d, l) it searches for the canonical name "Kepler-d l"
\* ("6b" becomes "Kepler-6 b"); with none or several it fails with an
\* invalid-name error and issues no request.
C17_PlanetName ==
    \A i \in DOMAIN calls :
        calls[i].op \in PlanetOps =>
            LET name == calls[i].args.id
                pairs == findall(name)
            IN  /\ name = <<"6", "b">> => pairs = << <<(<<"6">>), "b">> >>
                /\ name \in {<<"6", "-", "b">>, <<"6", " ", "b">>, <<"b", "6", "b">>}
                      => pairs = << <<(<<"6">>), "b">> >>
                /\ name = <<"6", "2", "b">> => pairs = << <<(<<"6", "2">>), "b">> >>
                /\ name \in {<<"6", "b", "2", "b">>, <<"6", "b", "6", "b">>}
                      => Len(pairs) = 2
                /\ name \in {<<>>, <<"6">>, <<"b">>, <<"b", "6">>, <<"6", "-">>}
                      => Len(pairs) = 0
                /\ IF Len(pairs) = 1
                   THEN /\ Len(calls[i].sent) = 1
                        /\ calls[i].sent[1].data["kepler_name"] =
                              <<"Kepler-">> \o pairs[1][1] \o <<"+", pairs[1][2]>>
                   ELSE /\ calls[i].sent = <<>>
                        /\ requests = 0
                        /\ ~calls[i].result.ok
                        /\ calls[i].result.error = "ValueError"
                        /\ calls[i].result.msg = "Invalid planet name"

\* "6b" was looked up as "Kepler-6 b"
C17_Witness ==
    /\ Len(calls) = 1
    /\ calls[1].op = "planet"
    /\ calls[1].args.id = <<"6", "b">>
    /\ requests = 1
    /\ calls[1].sent[1].data["kepler_name"] = <<"Kepler-", "6", "+", "b">>

(***************************************************************************)
(* Relationship accessors: KOI.star, Planet.koi, Planet.star, Star.kois.   *)
(***************************************************************************)
RelationClasses == {"KOI", "Planet", "Star"}

\* the properties of a class that resolve a related record
Accessors(c) ==
    CASE c = "KOI" -> {"star"}
      [] c = "Planet" -> {"koi", "star"}
      [] c = "Star" -> {"kois"}
      [] OTHER -> {}

\* self._star, self._koi, self._kois
Slot(a) ==
    CASE a = "star" -> "_star"
      [] a = "koi" -> "_koi"
      [] OTHER -> "_kois"

\* self.kepid, self.koi_number
KeyField(a) == IF a = "koi" THEN "koi_number" ELSE "kepid"

\* a Python list held as a value
ListOf(items) == [t |-> "list", items |-> items]

\* "kepid like '{0}'".format(self.kepid)
kepid_where(kepid) ==
    <<"kepid", " ", "like", " ", "'">> \o Str(kepid) \o <<"'">>

\* the list of a reply as a value that a record can hold
AsList(reply) ==
    IF ~reply.result.ok THEN reply
    ELSE Reply(reply.sent, Returned(ListOf(reply.result.value)))

\* the query of an accessor, by the key of the owning record
resolve(a, key, env) ==
    CASE a = "star" -> star(key, env)
      [] a = "koi" -> koi(key, env)
      [] OTHER -> AsList(kois([where |-> PyStr(kepid_where(key))], env))

slot_empty_always(self, a) == TRUE

\* self._star is None, self._koi is None, self._kois is None
slot_empty(self, a) == self.attrs[Slot(a)] = None

keep_failure(self, a, reply) ==
    IF ~reply.result.ok
    THEN [self |-> [self EXCEPT !.attrs[Slot(a)] = ListOf(<<>>)], reply |-> reply]
    ELSE [self |-> [self EXCEPT !.attrs[Slot(a)] = reply.result.value],
          reply |-> reply]

\* self._star = ..., self._koi = ..., self._kois = ...: the value of a reply
\* is kept on the record, an error is not
keep(self, a, reply) ==
    IF ~reply.result.ok THEN [self |-> self, reply |-> reply]
    ELSE [self |-> [self EXCEPT !.attrs[Slot(a)] = reply.result.value],
          reply |-> reply]

\* the property a of the record self: the record afterwards, and the reply
accessor(self, a, env) ==
    IF ~slot_empty(self, a)
    THEN [self |-> self, reply |-> Reply(<<>>, Returned(self.attrs[Slot(a)]))]
    ELSE IF KeyField(a) \notin DOMAIN self.attrs
    THEN [self |-> self, reply |-> Reply(<<>>, Raised("AttributeError"))]
    ELSE keep(self, a, resolve(a, self.attrs[KeyField(a)], env))

\* rows of typed values, as the searches hand them to the record classes
RelationRows(c) ==
    CASE c = "KOI" ->
            {[kepoi_name |-> PyStr(<<"K", "1">>), kepid |-> PyInt(6)],
             [kepoi_name |-> PyStr(<<"K", "1">>)]}
      [] c = "Planet" ->
            {[kepler_name |-> PyStr(<<"Kepler-", "6", " ", "b">>),
              kepid |-> PyInt(6), koi_number |-> PyFloat(101, KOI_DECIMALS)],
             [kepler_name |-> PyStr(<<"Kepler-", "6", " ", "b">>),
              kepid |-> PyInt(9787239)]}
      [] OTHER ->
            {[kic_kepler_id |-> PyInt(6)], [kic_kepler_id |-> PyInt(9787239)]}

InitRelation ==
    /\ data_root = CacheRoot
    /\ cls \in RelationClasses
    /\ row \in RelationRows(cls)
    /\ record = Model_subclass__init__(cls, row)
    /\ munged = NotBuilt
    /\ fs = NoFs
    /\ requests = 0
    /\ calls = <<>>
    /\ pyfits = TRUE
    /\ Idle

\* what the service answers to the query of an accessor
AccessorEnvs(a) ==
    IF a = "star" THEN LookupEnvs(JsonBodies(StarRows)) ELSE LookupEnvs(KoiBodies)

\* the record of an access; of the environment, what the access read
Access(a, env, reply) ==
    [op |-> a,
     args |-> [id |-> IF KeyField(a) \in DOMAIN record.attrs
                      THEN record.attrs[KeyField(a)] ELSE None],
     answered |-> Len(reply.sent) > 0 /\ env.answers,
     status |-> IF Len(reply.sent) > 0 /\ env.answers THEN env.status ELSE 0,
     body |-> IF Len(reply.sent) > 0 /\ env.answers THEN env.body ELSE <<>>,
     sent |-> reply.sent,
     result |-> reply.result]

\* the state after an access that ended as out
AfterRead(a, env, out) ==
    /\ record' = out.self
    /\ requests' = requests + Len(out.reply.sent)
    /\ calls' = <<Access(a, env, out.reply)>>

\* record.star, record.koi, record.kois
ReadProperty(a, env) ==
    /\ requests < MaxRequests
    /\ a \in Accessors(cls)
    /\ AfterRead(a, env, accessor(record, a, env))
    /\ UNCHANGED <<data_root, cls, row, munged, fs, pyfits, environ, modules, pc>>

NextRelation ==
    \/ \E env \in AccessorEnvs("star") : ReadProperty("star", env)
    \/ \E env \in AccessorEnvs("koi") : ReadProperty("koi", env)
    \/ \E env \in AccessorEnvs("kois") : ReadProperty("kois", env)

SpecRelation == InitRelation /\ [][NextRelation]_vars

(***************************************************************************)
(* Claims about the relationship accessors.                                *)
(***************************************************************************)
\* the request of an access carries the key of the owning record
KeyedBy(c, key) ==
    /\ Len(c.sent) = 1
    /\ CASE c.op = "star" ->
              c.sent[1].data["kic_kepler_id"] = Digits(key.v)
         [] c.op = "koi" ->
              c.sent[1].data["where"] =
                  <<"kepoi_name", "+", "like", "+", "'", "K">>
                      \o Format08_2f(key.n) \o <<"'">>
         [] OTHER ->
              c.sent[1].data["where"] =
                  <<"kepid", "+", "like", "+", "'">> \o Digits(key.v) \o <<"'">>

\* C18: for every record and accessor (KOI.star, Planet.koi, Planet.star,
\* Star.kois) and every step that reads the accessor: while nothing is held,
\* a read of a record that has the key issues one query keyed by that field;
\* a value that a read returns is held from then on; and while a value is
\* held, a read returns it, issues no query and leaves the record as it is.
C18_ResolvedOnce ==
    [][LET c == calls'[1]
           a == c.op
           before == record.attrs[Slot(a)]
       IN  /\ before # None =>
                 /\ c.sent = <<>>
                 /\ requests' = requests
                 /\ c.result = Returned(before)
                 /\ record' = record
           /\ (before = None /\ KeyField(a) \in DOMAIN record.attrs) =>
                 KeyedBy(c, record.attrs[KeyField(a)])
           /\ (before = None /\ c.result.ok) =>
                 /\ c.result.value # None
                 /\ record'.attrs[Slot(a)] = c.result.value
           /\ \A b \in Accessors(cls) \ {a} :
                 record'.attrs[Slot(b)] = record.attrs[Slot(b)]]_vars

\* a planet whose koi and star are both held after two requests, the last
\* read having been answered from the record
C18_Witness ==
    /\ cls = "Planet"
    /\ requests = 2
    /\ record.attrs["_koi"] # None
    /\ record.attrs["_star"] # None
    /\ Len(calls) = 1
    /\ calls[1].sent = <<>>
    /\ calls[1].result = Returned(record.attrs["_koi"])

\* the service answered the query of the access with a table of no rows
NoRelated(c) ==
    /\ Len(c.sent) = 1
    /\ c.answered
    /\ c.status = 200
    /\ IF c.op = "star" THEN c.body.valid /\ Len(c.body.rows) = 0
       ELSE c.body = <<Header>>

\* C19 as stated: every accessor (KOI.star, Planet.koi, Planet.star,
\* Star.kois) whose query finds no related record raises the not-found error
\* of the lookups; none returns an empty placeholder.
C19_NoRelatedIsNotFound ==
    \A i \in DOMAIN calls :
        NoRelated(calls[i]) =>
            /\ ~calls[i].result.ok
            /\ calls[i].result.error = "ValueError"

\* C19 as amended: KOI.star, Planet.koi and Planet.star raise the not-found
\* error of the lookups, carrying the key, when their query finds no related
\* record; Star.kois returns the empty list, and holds it.
C19_NotFoundExceptKois ==
    \A i \in DOMAIN calls :
        NoRelated(calls[i]) =>
            IF calls[i].op = "kois"
            THEN /\ calls[i].result = Returned(ListOf(<<>>))
                 /\ record.attrs["_kois"] = ListOf(<<>>)
            ELSE /\ calls[i].result \in
                     {not_found("No KIC target found with id", calls[i].args.id),
                      not_found("No KOI found with the number", calls[i].args.id)}
                 /\ record.attrs[Slot(calls[i].op)] = None

\* a KOI whose star the catalog does not have
C19_Witness ==
    /\ cls = "KOI"
    /\ Len(calls) = 1
    /\ calls[1].op = "star"
    /\ NoRelated(calls[1])
    /\ calls[1].result.error = "ValueError"

(***************************************************************************)
(* Data products: _data_search, light_curves, target_pixel_files, and      *)
(* Model.get_light_curves, Model.get_target_pixel_files.                   *)
(***************************************************************************)
\* if not len(data_list): raise ValueError(...)
non_empty(reply, err) ==
    IF ~reply.result.ok THEN reply
    ELSE IF Len(reply.result.value) = 0 THEN Reply(reply.sent, err)
    ELSE reply

\* params of _data_search
data_search_params(kepler_id, short_cadence) ==
    IF short_cadence THEN [ktc_kepler_id |-> kepler_id]
    ELSE [ktc_kepler_id |-> kepler_id, ktc_target_type |-> PyStr(<<"LC">>)]

\* API._data_search(kepler_id, short_cadence)
data_search(kepler_id, short_cadence, env) ==
    non_empty(mast_request("data_search", "dataset_adapter", NoSort,
                           data_search_params(kepler_id, short_cadence), env),
              not_found("No data files found for", kepler_id))

\* the values of a typed row
Untag(r) == [k \in DOMAIN r |-> IF r[k].t = "int" THEN r[k].v ELSE r[k].s]

\* what a call of light_curves or target_pixel_files did and returned
Products(f, sent, n, res) ==
    [fs |-> f, sent |-> sent, requests |-> n, result |-> res]

\* [l.fetch(clobber=clobber) for l in lcs]; the answers of the model name one
\* data set
fetch_all(lcs, sent, f, clobber, fenv) ==
    IF ~fetch(lcs[1], f, clobber, fenv).result.ok
    THEN Products(fetch(lcs[1], f, clobber, fenv).fs, sent,
                  Len(sent) + fetch(lcs[1], f, clobber, fenv).requests,
                  fetch(lcs[1], f, clobber, fenv).result)
    ELSE Products(fetch(lcs[1], f, clobber, fenv).fs, sent,
                  Len(sent) + fetch(lcs[1], f, clobber, fenv).requests,
                  Returned(lcs))

\* [LightCurve(self, d) for d in ...], then the fetches if fetch is set
data_files_of(c, root, found, fetch_flag, clobber, f, fenv) ==
    IF ~found.result.ok THEN Products(f, found.sent, Len(found.sent), found.result)
    ELSE LET lcs == [i \in DOMAIN found.result.value |->
                        datafile__init__(c, root, Untag(found.result.value[i]))]
         IN  IF \E i \in DOMAIN lcs : ~lcs[i].ok
             THEN Products(f, found.sent, Len(found.sent), Raised("KeyError"))
             ELSE IF fetch_flag
             THEN fetch_all(lcs, found.sent, f, clobber, fenv)
             ELSE Products(f, found.sent, Len(found.sent), Returned(lcs))

\* the arguments of light_curves and target_pixel_files, with the defaults of
\* the signature (short_cadence=True, fetch=False, clobber=False) for those
\* the caller does not pass
Bound(kwargs) ==
    [short_cadence |-> IF "short_cadence" \in DOMAIN kwargs
                       THEN kwargs["short_cadence"] ELSE TRUE,
     fetch |-> IF "fetch" \in DOMAIN kwargs THEN kwargs["fetch"] ELSE FALSE,
     clobber |-> IF "clobber" \in DOMAIN kwargs THEN kwargs["clobber"] ELSE FALSE]

\* API.light_curves(kepler_id, **kwargs) for c = "LightCurve",
\* API.target_pixel_files(kepler_id, **kwargs) for c = "TargetPixelFile"
data_files(c, root, kepler_id, kwargs, f, env, fenv) ==
    data_files_of(c, root,
                  data_search(kepler_id, Bound(kwargs).short_cadence, env),
                  Bound(kwargs).fetch, Bound(kwargs).clobber, f, fenv)

\* the keyword arguments get_light_curves and get_target_pixel_files pass on
passed_on(short_cadence, fetch_flag, clobber) ==
    [short_cadence |-> short_cadence, clobber |-> clobber]

\* one call of a method of the client
Invocation(c, kepler_id, kwargs) ==
    [fn |-> IF c = "LightCurve" THEN "light_curves" ELSE "target_pixel_files",
     kepler_id |-> kepler_id,
     kwargs |-> kwargs]

GetterName(c) ==
    IF c = "LightCurve" THEN "get_light_curves" ELSE "get_target_pixel_files"

(***************************************************************************)
(* Inputs of the data products.                                            *)
(***************************************************************************)
DataSetRow ==
    [ktc_kepler_id |-> PyStr(Digits(9787239)),
     sci_data_set_name |-> PyStr(<<"K", "P", "1">>),
     ktc_target_type |-> PyStr(<<"LC">>)]

DataSearchBodies ==
    {[text |-> <<"json">>, valid |-> TRUE, rows |-> <<>>],
     [text |-> <<"json">>, valid |-> TRUE, rows |-> <<DataSetRow>>],
     [text |-> <<"<html>">>, valid |-> FALSE, rows |-> <<>>]}

\* the answers to the download of a file that a call reads
FetchEnvs(fetch_flag) ==
    IF fetch_flag THEN Envs ELSE {CHOOSE e \in Envs : ~e.answers}

GetterRows ==
    {[kepler_name |-> PyStr(<<"Kepler-", "6", " ", "b">>), kepid |-> PyInt(9787239)],
     [kepler_name |-> PyStr(<<"Kepler-", "6", " ", "b">>)]}

InitProducts ==
    /\ data_root = CacheRoot
    /\ cls \in {"TestModel", "Planet"}
    /\ row \in GetterRows
    /\ record = Model_subclass__init__(cls, row)
    /\ munged = NotBuilt
    /\ fs \in {NoFs} \cup {[dir |-> TRUE, exists |-> TRUE, data |-> b] : b \in Bodies}
    /\ requests = 0
    /\ calls = <<>>
    /\ pyfits = TRUE
    /\ Idle

\* the state after a call that went on to the client as invoked and ended as out
AfterProducts(op, args, invoked, env, out) ==
    /\ calls' = <<[op |-> op,
                   args |-> args,
                   invoked |-> invoked,
                   answered |-> env.answers,
                   status |-> env.status,
                   body |-> env.body,
                   before |-> fs,
                   sent |-> out.sent,
                   result |-> out.result]>>
    /\ fs' = out.fs
    /\ requests' = requests + out.requests

\* api.light_curves(kepler_id, short_cadence, fetch, clobber) and
\* api.target_pixel_files(kepler_id, short_cadence, fetch, clobber)
DataFiles(c, kepler_id, kwargs, env, fenv) ==
    /\ calls = <<>>
    /\ AfterProducts(Invocation(c, kepler_id, kwargs).fn, kwargs, <<>>, env,
                     data_files(c, data_root, kepler_id, kwargs, fs, env, fenv))
    /\ UNCHANGED <<data_root, cls, row, record, munged, pyfits, environ, modules, pc>>

\* record.get_light_curves(short_cadence, fetch, clobber) and
\* record.get_target_pixel_files(short_cadence, fetch, clobber)
GetDataFiles(c, short_cadence, fetch_flag, clobber, env, fenv) ==
    /\ calls = <<>>
    /\ IF "kepid" \notin DOMAIN record.attrs
       THEN AfterProducts(GetterName(c),
                          [short_cadence |-> short_cadence,
                           fetch |-> fetch_flag, clobber |-> clobber],
                          <<>>, env,
                          Products(fs, <<>>, 0, Raised("AttributeError")))
       ELSE AfterProducts(GetterName(c),
                          [short_cadence |-> short_cadence,
                           fetch |-> fetch_flag, clobber |-> clobber],
                          <<Invocation(c, record.attrs["kepid"],
                                       passed_on(short_cadence, fetch_flag, clobber))>>,
                          env,
                          data_files(c, data_root, record.attrs["kepid"],
                                     passed_on(short_cadence, fetch_flag, clobber),
                                     fs, env, fenv))
    /\ UNCHANGED <<data_root, cls, row, record, munged, pyfits, environ, modules, pc>>

NextProducts ==
    \/ /\ calls = <<>>
       /\ \E c \in DataFileClasses, kepler_id \in StarIds,
             kwargs \in [{"short_cadence", "fetch", "clobber"} -> BOOLEAN],
             env \in LookupEnvs(DataSearchBodies) :
             \E fenv \in FetchEnvs(kwargs["fetch"]) :
                DataFiles(c, kepler_id, kwargs, env, fenv)
    \/ /\ calls = <<>>
       /\ \E c \in DataFileClasses, short_cadence \in BOOLEAN,
             fetch_flag \in BOOLEAN, clobber \in BOOLEAN,
             env \in LookupEnvs(DataSearchBodies), fenv \in FetchEnvs(FALSE) :
             GetDataFiles(c, short_cadence, fetch_flag, clobber, env, fenv)

SpecProducts == InitProducts /\ [][NextProducts]_vars

\* C20: Model.get_light_curves(short_cadence, fetch, clobber) calls
\* api.light_curves exactly once, with the record's kepid and the three flags
\* as they were given; Model.get_target_pixel_files does the same with
\* api.target_pixel_files.
C20_FlagsPassedOn ==
    \A i \in DOMAIN calls :
        (/\ calls[i].op \in {"get_light_curves", "get_target_pixel_files"}
         /\ "kepid" \in DOMAIN record.attrs) =>
            /\ Len(calls[i].invoked) = 1
            /\ calls[i].invoked[1].fn =
                  (IF calls[i].op = "get_light_curves"
                   THEN "light_curves" ELSE "target_pixel_files")
            /\ calls[i].invoked[1].kepler_id = record.attrs["kepid"]
            /\ DOMAIN calls[i].invoked[1].kwargs = {"short_cadence", "fetch", "clobber"}
            /\ calls[i].invoked[1].kwargs = calls[i].args

(***************************************************************************)
(* config.py and API.__init__: the data root.  The environment is read     *)
(* when the package is imported; a client built without an argument takes  *)
(* the name bound by that import.                                          *)
(***************************************************************************)
Setenv(path) == [t |-> "set", v |-> path]

\* os.environ.get(name, default)
environ_get(env, default) == IF env.t = "set" THEN env.v ELSE default

\* the home directory of the user running the process
Home == <<"/", "home", "/", "u">>

\* os.path.expanduser: a leading "~" that ends the path or stands before a
\* "/" becomes the home directory; "~name" of an unknown user and every
\* other path are returned as they are
expanduser(path) ==
    IF Len(path) >= 1 /\ path[1] = "~" /\ (Len(path) = 1 \/ path[2] = "/")
    THEN Home \o SubSeq(path, 2, Len(path))
    ELSE path

\* os.path.expanduser(os.environ.get(NAME, os.path.join("~", ".kplr")))
KPLR_DATA_DIR(env) ==
    expanduser(environ_get(env, PathJoin(<<"~">>, <<".kplr">>)))

\* the name api.py and ld.py import from the configuration module
KPLR_ROOT(env) == KPLR_DATA_DIR(env)

NotImported == [imported |-> FALSE]

\* the module object after "from .config import KPLR_ROOT"
config(env) == [imported |-> TRUE, KPLR_ROOT |-> KPLR_ROOT(env)]

API__init__ignoring_argument(data_root_arg, root) == root

\* API.__init__(data_root): data_root_arg is None or a string
API__init__(data_root_arg, root) ==
    IF data_root_arg.t = "NoneType" THEN root ELSE data_root_arg.s

\* no client has been constructed yet
NoClient == <<>>

EnvValues ==
    { <<"/", "srv", "/", "kplr">>, <<"~", "/", "k">>, <<"~">>, <<"~", "x">>,
      <<"/", "srv", "/", "~">> }

Environs == {Unset} \cup {Setenv(p) : p \in EnvValues}

RootArgs == {None} \cup {PyStr(p) : p \in Roots \cup { <<"~", "/", "k">> }}

InitConfig ==
    /\ data_root = NoClient
    /\ cls \in DataFileClasses
    /\ row = CacheRow
    /\ record = NotBuilt
    /\ munged = NotBuilt
    /\ fs = NoFs
    /\ requests = 0
    /\ calls = <<>>
    /\ pyfits = TRUE
    /\ environ \in Environs
    /\ modules = NotImported
    /\ pc = <<>>

\* os.environ[NAME] = value, or del os.environ[NAME], at any time
Putenv(env) ==
    /\ environ # env
    /\ environ' = env
    /\ UNCHANGED <<data_root, cls, row, record, munged, fs, requests, calls, pyfits, modules, pc>>

\* import kplr: runs config.py once
ImportConfig ==
    /\ ~modules.imported
    /\ modules' = config(environ)
    /\ calls' = <<[op |-> "import", environ |-> environ]>>
    /\ UNCHANGED <<data_root, cls, row, record, munged, fs, requests, pyfits, environ, pc>>

\* client = API(data_root_arg); the new client has produced no record yet
NewAPI(data_root_arg) ==
    /\ modules.imported
    /\ data_root' = API__init__(data_root_arg, modules.KPLR_ROOT)
    /\ record' = NotBuilt
    /\ calls' = <<calls[1], [op |-> "API", args |-> data_root_arg, environ |-> environ]>>
    /\ UNCHANGED <<cls, row, munged, fs, requests, pyfits, environ, modules, pc>>

\* the client produces a data-file record
NewDataFile ==
    /\ Len(calls) = 2
    /\ record = NotBuilt
    /\ record' = datafile__init__(cls, data_root, row)
    /\ UNCHANGED <<data_root, cls, row, munged, fs, requests, calls, pyfits, environ, modules, pc>>

NextConfig ==
    \/ \E env \in Environs : Putenv(env)
    \/ ImportConfig
    \/ \E a \in RootArgs : NewAPI(a)
    \/ NewDataFile

SpecConfig == InitConfig /\ [][NextConfig]_vars

\* the three-tier resolution, the environment being the one given
Resolved(data_root_arg, env) ==
    IF data_root_arg.t # "NoneType" THEN data_root_arg.s
    ELSE expanduser(environ_get(env, PathJoin(<<"~">>, <<".kplr">>)))

\* C21 as stated: the data root of a client is the explicit argument when
\* one is given, otherwise the value the environment variable has when the
\* client is constructed, otherwise the default under the home directory.
C21_ResolvedAtConstruction ==
    Len(calls) = 2 =>
        data_root = Resolved(calls[2].args, calls[2].environ)

\* C21: the data root of a client is the explicit argument when one is
\* given, otherwise the value the environment variable had when the package
\* was imported (a leading "~" expanded), otherwise the default under the
\* home directory; a change of the environment changes neither the data
\* root of the client nor the record it produced, and the record's
\* directory lies under the client's data root.
C21_ResolvedAtImport ==
    /\ [](Len(calls) = 2 =>
            data_root = Resolved(calls[2].args, calls[1].environ))
    /\ [](record.ok =>
            SubSeq(record.attrs["base_dir"], 1, Len(data_root)) = data_root)
    /\ [][environ' # environ => data_root' = data_root /\ record' = record]_vars

\* a client built without an argument after the environment changed, and a
\* record it produced
C21_Witness ==
    /\ Len(calls) = 2
    /\ calls[2].args = None
    /\ calls[2].environ # calls[1].environ
    /\ record.ok
    /\ environ # calls[2].environ

(***************************************************************************)
(* Claims about the calls of the file cache that fail.                     *)
(***************************************************************************)
\* the errors of a request, of a lookup that finds nothing and of an
\* invalid input
OtherErrors == {"APIError", "HTTPError", "URLError", "ValueError", "IOError",
                "AttributeError", "TypeError", "KeyError"}

\* C22: when the FITS library is not installed, open() on a data-file
\* record fails with the capability-missing error (ImportError, none of the
\* request, not-found or invalid-input errors) whatever the cache holds,
\* without issuing a request and without changing a file or a directory.
C22_MissingLibraryFailsFirst ==
    \A i \in DOMAIN calls :
        (calls[i].op = "open" /\ ~pyfits) =>
            /\ ~calls[i].result.ok
            /\ calls[i].result.error = "ImportError"
            /\ calls[i].result.error \notin OtherErrors
            /\ calls[i].requests = 0
            /\ calls[i].after = calls[i].before

\* open(clobber=True) without the library on a file that a fetch has just
\* downloaded
C22_Witness ==
    /\ ~pyfits
    /\ Len(calls) = 2
    /\ calls[1].op = "fetch" /\ ~calls[1].before.exists /\ calls[1].after.exists
    /\ calls[2].op = "open" /\ calls[2].before.exists /\ calls[2].clobber

\* a call of the query client during which something failed: the server
\* was not reached, it answered with an error status, or it answered 200
\* with a body that is not JSON
SomethingFailed(c) ==
    \/ ~c.answered
    \/ c.status >= 400
    \/ IsMastCall(c) /\ c.status = HTTP_OK /\ ~c.body.valid

\* C23: no operation swallows or retries a failure: a call during which the
\* request or the parsing of the response failed ends with an error for its
\* caller, and no call issues its request more than once.
C23_FailuresReachCaller ==
    \A i \in DOMAIN calls :
        /\ SomethingFailed(calls[i]) => ~calls[i].result.ok
        /\ Len(calls[i].sent) <= 1

(***************************************************************************)
(* ld.download_database, one step per statement that touches the file      *)
(* system, with a reader of the destination running beside it.  Here       *)
(* environ is the value of TMPDIR, and fs holds the destination file, the  *)
(* temporary file and whether the data root directory exists.              *)
(***************************************************************************)
Absent == [exists |-> FALSE, data |-> <<>>]
Present(data) == [exists |-> TRUE, data |-> data]

\* os.path.join(data_root, "ldcoeffs.db")
ld_filename(root) == PathJoin(root, <<"ldcoeffs.db">>)

ld_url == <<"http://bbq.dfm.io/~dfm/ldcoeffs.db">>

\* tempfile.gettempdir(): the directory TMPDIR names when it can be used,
\* else /tmp
gettempdir(env, usable) ==
    IF env.t = "set" /\ usable THEN env.v ELSE <<"/", "tmp">>

\* NamedTemporaryFile("wb", delete=False): an empty file in the temporary
\* directory of the process; root is the data root of the call, which the
\* code does not pass on
NamedTemporaryFile(f, env, root) ==
    [f EXCEPT !.tmp = [exists |-> TRUE,
                       dir |-> gettempdir(env, env.t = "set" /\ (env.v # root \/ f.root)),
                       data |-> <<>>]]

file_write_in_place(f, data) == [f EXCEPT !.dest = Present(data)]

\* f.write(...) and f.flush(): data is what the temporary file holds on disk
\* afterwards
file_write(f, data) == [f EXCEPT !.tmp.data = data]

\* os.rename(f.name, filename): fails when the destination directory does
\* not exist or lies on another device, else replaces the destination in
\* one step
rename(f, root, same_device) ==
    IF ~f.root \/ (f.tmp.dir # root /\ ~same_device) THEN Raised("OSError")
    ELSE Returned([f EXCEPT !.dest = Present(f.tmp.data),
                            !.tmp = [exists |-> FALSE, dir |-> f.tmp.dir,
                                     data |-> <<>>]])

At(position) == [pc EXCEPT !.at = position]
Failed(kind) == [pc EXCEPT !.at = "failed", !.error = kind]

LdRoots == { <<"/", "home", "/", "data">>, <<"/", "tmp">>, KPLR_ROOT(Unset) }

TmpDirs == {Unset, Setenv(<<"/", "home", "/", "data">>), Setenv(<<"/", "var", "/", "tmp">>)}

OldDatabase == <<"o">>

InitLd ==
    /\ data_root \in LdRoots
    /\ cls = "ld"
    /\ row = <<>>
    /\ record = NotBuilt
    /\ munged = NotBuilt
    /\ fs \in [root : BOOLEAN, dest : {Absent, Present(OldDatabase)},
               tmp : {[exists |-> FALSE, dir |-> <<>>, data |-> <<>>]}]
    /\ fs.dest.exists => fs.root
    /\ requests = 0
    /\ calls = <<>>
    /\ pyfits = TRUE
    /\ environ \in TmpDirs
    /\ modules = <<>>
    /\ pc = [at |-> "start", body |-> <<>>, before |-> fs.dest, error |-> "none"]

\* handler = urllib2.urlopen(r); code = handler.getcode(); the check of it
LdRequest(env) ==
    /\ pc.at = "start"
    /\ requests' = requests + 1
    /\ LET handler == urlopen(ld_url, env)
       IN  pc' = IF ~handler.ok THEN Failed(handler.error)
                 ELSE IF handler.code # HTTP_OK THEN Failed("RuntimeError")
                 ELSE [pc EXCEPT !.at = "answered", !.body = handler.body]
    /\ UNCHANGED <<data_root, cls, row, record, munged, fs, calls, pyfits, environ, modules>>

\* f = NamedTemporaryFile("wb", delete=False)
LdCreate ==
    /\ pc.at = "answered"
    /\ fs' = NamedTemporaryFile(fs, environ, data_root)
    /\ pc' = At("created")
    /\ UNCHANGED <<data_root, cls, row, record, munged, requests, calls, pyfits, environ, modules>>

\* f.write(handler.read()): n bytes reach the disk, the rest stays in the
\* buffer of the file object; the read or the write may fail
LdWrite(n, fails) ==
    /\ pc.at = "created"
    /\ fs' = file_write(fs, SubSeq(pc.body, 1, n))
    /\ pc' = IF fails THEN Failed("IOError") ELSE At("written")
    /\ UNCHANGED <<data_root, cls, row, record, munged, requests, calls, pyfits, environ, modules>>

\* f.flush(): the buffer reaches the disk unless the write fails
LdFlush(n, fails) ==
    /\ pc.at = "written"
    /\ n >= Len(fs.tmp.data)
    /\ fails \/ n = Len(pc.body)
    /\ fs' = file_write(fs, SubSeq(pc.body, 1, n))
    /\ pc' = IF fails THEN Failed("IOError") ELSE At("flushed")
    /\ UNCHANGED <<data_root, cls, row, record, munged, requests, calls, pyfits, environ, modules>>

\* os.fsync(f.fileno()); f.close()
LdSyncClose ==
    /\ pc.at \in {"flushed", "synced"}
    /\ pc' = At(IF pc.at = "flushed" THEN "synced" ELSE "closed")
    /\ UNCHANGED <<data_root, cls, row, record, munged, fs, requests, calls, pyfits, environ, modules>>

\* os.rename(f.name, filename)
LdRename(same_device) ==
    /\ pc.at = "closed"
    /\ LET r == rename(fs, data_root, same_device)
       IN  /\ fs' = IF r.ok THEN r.value ELSE fs
           /\ pc' = IF r.ok THEN At("done") ELSE Failed(r.error)
    /\ UNCHANGED <<data_root, cls, row, record, munged, requests, calls, pyfits, environ, modules>>

\* another process opens and reads the destination file
ReadDatabase ==
    /\ calls' = <<[op |-> "read", at |-> pc.at, saw |-> fs.dest]>>
    /\ calls' # calls
    /\ UNCHANGED <<data_root, cls, row, record, munged, fs, requests, pyfits, environ, modules, pc>>

NextLd ==
    \/ \E env \in Envs : LdRequest(env)
    \/ LdCreate
    \/ \E n \in 0..BodyLen, fails \in BOOLEAN : LdWrite(n, fails)
    \/ \E n \in 0..BodyLen, fails \in BOOLEAN : LdFlush(n, fails)
    \/ LdSyncClose
    \/ \E same_device \in BOOLEAN : LdRename(same_device)
    \/ ReadDatabase

SpecLd == InitLd /\ [][NextLd]_vars

\* what a reader may find: the destination as it was before the download,
\* or the whole body of the response
BeforeOrComplete(file) ==
    \/ file = pc.before
    \/ pc.at = "done" /\ file = Present(pc.body)

\* C24: during download_database a reader of the destination file finds, at
\* every step of the writer, the file as it was before the download (absent
\* or old) or the complete new file, never a part of it; the destination
\* changes only in the rename, after the whole body was written, flushed
\* and synced.
C24_NeverPartial ==
    /\ [](BeforeOrComplete(fs.dest))
    /\ [](\A i \in DOMAIN calls : calls[i].saw \in {pc.before, Present(pc.body)})
    /\ [][fs'.dest # fs.dest =>
            /\ pc.at = "closed" /\ pc'.at = "done"
            /\ fs.tmp.data = pc.body
            /\ fs'.dest = Present(pc.body)]_vars

\* a reader that found the old file while the temporary file held a part
\* of the body, and the download completed afterwards
C24_Witness ==
    /\ pc.at = "done"
    /\ pc.before = Present(OldDatabase)
    /\ fs.dest = Present(pc.body)
    /\ Len(calls) = 1
    /\ calls[1].at = "written"
    /\ calls[1].saw = Present(OldDatabase)

\* C25: the temporary file that download_database writes before the rename
\* is created in the directory of the destination file, which is data_root,
\* for every data_root.
C25_TempBesideDestination ==
    fs.tmp.exists => PathJoin(fs.tmp.dir, <<"ldcoeffs.db">>) = ld_filename(data_root)

\* C26: a multi-record query returns one record for every row of the
\* response, each with every field of the response header, or fails as a
\* whole.
C26_AllOrNothing ==
    \A i \in DOMAIN calls :
        (calls[i].op = "kois" /\ calls[i].result.ok) =>
            LET header == calls[i].body[1]
                rows == Tail(calls[i].body)
                found == calls[i].result.value
            IN  /\ Len(found) = Len(rows)
                /\ \A k \in DOMAIN found :
                      {header[j][1] : j \in DOMAIN header} \subseteq DOMAIN found[k].params

(***************************************************************************)
(* Two calls of _datafile.fetch on the same record running at the same     *)
(* time, one step per statement that reads or changes the file system.     *)
(* The server answers both with the same content.  pc[p] holds the         *)
(* position, the clobber flag and the file offset of call p.               *)
(***************************************************************************)
Fetchers == {1, 2}

Content == [i \in 1..BodyLen |-> "a"]

StaleContent == [i \in 1..BodyLen |-> "b"]

ServerUp ==
    [answers |-> TRUE, status |-> HTTP_OK, body |-> Content,
     mkdir |-> TRUE, written |-> BodyLen]

\* os.makedirs(self.base_dir): raises os.error when the directory exists
os_makedirs(f) ==
    IF f.dir THEN Raised("OSError") ELSE Returned([f EXCEPT !.dir = TRUE])

try_makedirs_unguarded(f) == os_makedirs(f)

\* try: os.makedirs(self.base_dir) except os.error: pass
try_makedirs(f) ==
    LET r == os_makedirs(f) IN IF r.ok THEN r ELSE Returned(f)

\* open(filename, "wb"): creates the file or truncates it
open_wb(f) ==
    IF ~f.dir THEN Raised("IOError")
    ELSE Returned([f EXCEPT !.exists = TRUE, !.data = <<>>])

\* a write of one byte at the offset of the writer: bytes between the end of
\* the file and the offset read as zero
write_at(data, offset, byte) ==
    IF offset < Len(data) THEN [data EXCEPT ![offset + 1] = byte]
    ELSE data \o [i \in 1..(offset - Len(data)) |-> "\\0"] \o <<byte>>

Goto(p, position) == [pc EXCEPT ![p].at = position]

InitRace ==
    /\ data_root = CacheRoot
    /\ cls \in DataFileClasses
    /\ row = CacheRow
    /\ record = datafile__init__(cls, data_root, row)
    /\ munged = NotBuilt
    /\ fs \in {NoFs,
               [dir |-> TRUE, exists |-> FALSE, data |-> <<>>],
               [dir |-> TRUE, exists |-> TRUE, data |-> StaleContent]}
    /\ requests = 0
    /\ calls = <<>>
    /\ pyfits = TRUE
    /\ environ = Unset
    /\ modules = <<>>
    /\ pc \in [Fetchers -> [at : {"start"}, clobber : BOOLEAN, offset : {0},
                            downloaded : {FALSE}, swallowed : {FALSE}]]

\* if os.path.exists(filename) and not clobber: return self
RaceExists(p) ==
    /\ pc[p].at = "start"
    /\ pc' = Goto(p, IF cached(fs, pc[p].clobber) THEN "done" ELSE "request")
    /\ UNCHANGED <<data_root, cls, row, record, munged, fs, requests, calls, pyfits, environ, modules>>

\* handler = urllib2.urlopen(r) and the check of its status
RaceRequest(p) ==
    /\ pc[p].at = "request"
    /\ requests' = requests + 1
    /\ LET handler == urlopen(url(record), ServerUp)
       IN  pc' = Goto(p, IF handler.ok /\ status_ok(handler.code)
                         THEN "makedirs" ELSE "failed")
    /\ UNCHANGED <<data_root, cls, row, record, munged, fs, calls, pyfits, environ, modules>>

\* the guarded os.makedirs(self.base_dir)
RaceMakedirs(p) ==
    /\ pc[p].at = "makedirs"
    /\ LET r == try_makedirs(fs)
       IN  /\ fs' = IF r.ok THEN r.value ELSE fs
           /\ pc' = [pc EXCEPT ![p].at = IF r.ok THEN "open" ELSE "failed",
                               ![p].swallowed = fs.dir]
    /\ UNCHANGED <<data_root, cls, row, record, munged, requests, calls, pyfits, environ, modules>>

\* open(filename, "wb")
RaceOpen(p) ==
    /\ pc[p].at = "open"
    /\ LET r == open_wb(fs)
       IN  /\ fs' = IF r.ok THEN r.value ELSE fs
           /\ pc' = Goto(p, IF r.ok THEN "write" ELSE "failed")
    /\ UNCHANGED <<data_root, cls, row, record, munged, requests, calls, pyfits, environ, modules>>

\* .write(handler.read()): the bytes reach the file one after the other, the
\* file is closed after the last
RaceWrite(p) ==
    /\ pc[p].at = "write"
    /\ fs' = [fs EXCEPT !.data = write_at(fs.data, pc[p].offset,
                                          Content[pc[p].offset + 1])]
    /\ pc' = [pc EXCEPT ![p].offset = pc[p].offset + 1,
                        ![p].at = IF pc[p].offset + 1 = Len(Content)
                                  THEN "done" ELSE "write",
                        ![p].downloaded = pc[p].offset + 1 = Len(Content)]
    /\ UNCHANGED <<data_root, cls, row, record, munged, requests, calls, pyfits, environ, modules>>

RaceStep(p) ==
    \/ RaceExists(p)
    \/ RaceRequest(p)
    \/ RaceMakedirs(p)
    \/ RaceOpen(p)
    \/ RaceWrite(p)

NextRace == \E p \in Fetchers : RaceStep(p)

\* each call is a running thread or process of its own: none waits for the
\* other, so each one that can take a step eventually takes it
SpecRace ==
    /\ InitRace
    /\ [][NextRace]_vars
    /\ \A p \in Fetchers : WF_vars(RaceStep(p))

AllDone == \A p \in Fetchers : pc[p].at = "done"

\* C27: of two fetch calls on the same cache entry that run at the same
\* time and download the same content, under every interleaving of their
\* steps, neither fails (in particular not because the other created the
\* directory first), both complete, and once both have completed after a
\* download the local file holds exactly the downloaded content.
C27_BothComplete ==
    /\ [](\A p \in Fetchers : pc[p].at # "failed")
    /\ []((AllDone /\ \E p \in Fetchers : pc[p].downloaded) =>
              fs.exists /\ fs.data = Content)
    /\ <>AllDone

\* both calls downloaded, and one of them found the directory that the
\* other had created in the meantime
C27_Witness ==
    /\ AllDone
    /\ \A p \in Fetchers : pc[p].downloaded
    /\ \E p \in Fetchers : pc[p].swallowed
    /\ requests = 2
    /\ fs.data = Content

(***************************************************************************)
(* Catalog.fetch of catalogs.py beside _datafile.fetch: one call of either *)
(* on a cache in any state.                                                *)
(***************************************************************************)
CatalogClasses == {"PlanetCatalog", "KOICatalog", "KICCatalog", "EPICCatalog"}

\* the name attribute of each catalog class
catalog_name(c) ==
    CASE c = "PlanetCatalog" -> "planets"
      [] c = "KOICatalog" -> "cumulative"
      [] c = "KICCatalog" -> "keplerstellar"
      [] OTHER -> "k2targets"

\* ExoplanetArchiveCatalog.url
catalog_url(c) ==
    <<"http://exoplanetarchive.ipac.caltech.edu/cgi-bin/nstedAPI/nph-nstedAPI",
      "?table=", catalog_name(c), "&select=*">>

CatalogDownloadError(code, u, txt) ==
    [ok |-> FALSE, error |-> "CatalogDownloadError", code |-> code, url |-> u,
     txt |-> txt]

\* ExoplanetArchiveCatalog._save_fetched_file: the table read from the
\* response is stored as an HDF file, which is left incomplete when the
\* write fails
save_fetched_file(f, env) ==
    IF ~f.dir THEN Outcome(f, 1, Raised("IOError"))
    ELSE IF env.written < BodyLen
    THEN Outcome([f EXCEPT !.exists = TRUE, !.data = <<"hdf">>], 1, Raised("IOError"))
    ELSE Outcome([f EXCEPT !.exists = TRUE, !.data = <<"hdf">> \o env.body],
                 1, Returned(None))

\* Catalog.fetch(clobber)
catalog_fetch(c, f, clobber, env) ==
    IF cached(f, clobber) THEN Outcome(f, 0, Returned(None))
    ELSE LET handler == urlopen(catalog_url(c), env)
         IN  IF ~handler.ok THEN Outcome(f, 1, handler)
             ELSE IF ~status_ok(handler.code)
             THEN Outcome(f, 1, CatalogDownloadError(handler.code, catalog_url(c), <<>>))
             ELSE save_fetched_file(makedirs(f, env), env)

CatalogFetch(c, clobber, env) ==
    /\ requests < MaxRequests
    /\ LET out == catalog_fetch(c, fs, clobber, env)
       IN  /\ fs' = out.fs
           /\ requests' = requests + out.requests
           /\ calls' = Recent(Append(calls, Call("Catalog.fetch", clobber, env, out)))
    /\ UNCHANGED <<data_root, cls, row, record, munged, pyfits, environ, modules, pc>>

NextDownload ==
    \/ /\ calls = <<>>
       /\ \E clobber \in BOOLEAN, env \in Envs : Fetch(clobber, env)
    \/ /\ calls = <<>>
       /\ \E c \in CatalogClasses, clobber \in BOOLEAN, env \in Envs :
             CatalogFetch(c, clobber, env)

SpecDownload == InitCache /\ [][NextDownload]_vars

\* the download request of the call failed: the server was not reached or
\* answered with a status other than 200
RequestFailed(c) == c.requests > 0 /\ (~c.answered \/ c.status # HTTP_OK)

\* C28: a fetch whose download request fails (transport error or a status
\* other than 200) fails and leaves the local file system as it was: no
\* directory is created and the local file is not created, truncated or
\* changed, also with clobber=True on a cached file.
C28_FailedDownloadChangesNothing ==
    \A i \in DOMAIN calls :
        RequestFailed(calls[i]) =>
            /\ ~calls[i].result.ok
            /\ calls[i].after = calls[i].before

\* fetch(clobber=True) on a cached file when the server answers 404
C28_Witness ==
    /\ Len(calls) = 1
    /\ calls[1].op = "fetch"
    /\ calls[1].clobber
    /\ calls[1].before.exists
    /\ calls[1].answered /\ calls[1].status = 404
    /\ fs = calls[1].before

\* an access that sent its query and ended with an error
QueryFailed(c) == Len(c.sent) = 1 /\ ~c.result.ok

\* C29: when the query of a relationship accessor fails (nothing found, or
\* a request error), the error reaches the caller and nothing is kept: the
\* record is as before with the slot still empty, and the next read of the
\* same accessor issues the query again.
C29_FailureNotCached ==
    [][LET c == calls'[1]
           a == c.op
       IN  /\ QueryFailed(c) =>
                 /\ record' = record
                 /\ record'.attrs[Slot(a)] = None
           /\ (calls # <<>> /\ calls[1].op = a /\ QueryFailed(calls[1])) =>
                 /\ requests' = requests + 1
                 /\ KeyedBy(c, record.attrs[KeyField(a)])]_vars

\* a KOI whose star was read twice: both reads sent the query and failed,
\* the second with a request error
C29_Witness ==
    /\ cls = "KOI"
    /\ requests = 2
    /\ QueryFailed(calls[1])
    /\ calls[1].result.error # "ValueError"
    /\ record.attrs["_star"] = None

(***************************************************************************)
(* utils.singleton around the catalog classes.  modules holds, for each    *)
(* wrapped class, the inst attribute of its wrapper and the number of      *)
(* objects of the class constructed so far; record remembers the first     *)
(* call of each class.                                                     *)
(***************************************************************************)
\* Catalog.__init__(data_root): the serial tells the objects of a class apart
Catalog__init__(c, data_root_arg, serial, default) ==
    [t |-> "object", cls |-> c, serial |-> serial,
     data_root |-> IF data_root_arg.t = "NoneType" THEN default
                   ELSE data_root_arg.s,
     _df |-> None]

singleton__call__always_new(inst, c, data_root_arg, serial, default) ==
    Catalog__init__(c, data_root_arg, serial, default)

\* singleton.__call__(*args, **kwargs): the instance it returns, which is
\* also the inst attribute afterwards
singleton__call__(inst, c, data_root_arg, serial, default) ==
    IF inst.t = "NoneType"
    THEN Catalog__init__(c, data_root_arg, serial, default)
    ELSE inst

\* Catalog.filename
catalog_filename(self) ==
    PathJoin(PathJoin(self.data_root, <<"catalogs">>),
             <<catalog_name(self.cls), ".h5">>)

CatalogArgs == {None} \cup {PyStr(p) : p \in { <<"/", "home", "/", "data">>, <<"/", "srv">> }}

InitSingleton ==
    /\ data_root = CacheRoot
    /\ cls = "Catalog"
    /\ row = <<>>
    /\ record = [c \in CatalogClasses |-> None]
    /\ munged = NotBuilt
    /\ fs = NoFs
    /\ requests = 0
    /\ calls = <<>>
    /\ pyfits = TRUE
    /\ environ \in {Unset, Setenv(<<"~", "/", "k">>)}
    /\ modules = [KPLR_DATA_DIR |-> KPLR_DATA_DIR(environ),
                  inst |-> [c \in CatalogClasses |-> None],
                  made |-> [c \in CatalogClasses |-> 0]]
    /\ pc = <<>>

\* the state after the call c(data_root_arg) of a wrapped class
AfterCatalogCall(c, data_root_arg, returned) ==
    /\ modules' = [modules EXCEPT
                      !.inst[c] = returned,
                      !.made[c] = IF returned.serial > modules.made[c]
                                  THEN returned.serial ELSE modules.made[c]]
    /\ record' = IF record[c].t = "NoneType"
                 THEN [record EXCEPT ![c] = [t |-> "call", args |-> data_root_arg,
                                             serial |-> modules.made[c] + 1]]
                 ELSE record

\* PlanetCatalog(data_root_arg), KOICatalog(...), KICCatalog(...), EPICCatalog(...)
CatalogCall(c, data_root_arg) ==
    /\ LET returned == singleton__call__(modules.inst[c], c, data_root_arg,
                                         modules.made[c] + 1, modules.KPLR_DATA_DIR)
       IN  /\ AfterCatalogCall(c, data_root_arg, returned)
           /\ calls' = <<[op |-> "call", cls |-> c, args |-> data_root_arg,
                          returned |-> returned]>>
    /\ UNCHANGED <<data_root, cls, row, munged, fs, requests, pyfits, environ, pc>>

\* koi_catalog.join_stars(df): kic = KICCatalog(data_root=self.data_root),
\* then the table of kic is read from the file of kic
JoinStars ==
    /\ modules.inst["KOICatalog"].t = "object"
    /\ LET self == modules.inst["KOICatalog"]
           kic == singleton__call__(modules.inst["KICCatalog"], "KICCatalog",
                                    PyStr(self.data_root),
                                    modules.made["KICCatalog"] + 1,
                                    modules.KPLR_DATA_DIR)
           loaded == [kic EXCEPT !._df = [t |-> "DataFrame",
                                          file |-> catalog_filename(kic)]]
       IN  /\ AfterCatalogCall("KICCatalog", PyStr(self.data_root), loaded)
           /\ calls' = <<[op |-> "join_stars", cls |-> "KICCatalog",
                          args |-> PyStr(self.data_root), returned |-> loaded]>>
    /\ UNCHANGED <<data_root, cls, row, munged, fs, requests, pyfits, environ, pc>>

NextSingleton ==
    \/ \E c \in CatalogClasses, a \in CatalogArgs : CatalogCall(c, a)
    \/ JoinStars

SpecSingleton == InitSingleton /\ [][NextSingleton]_vars

\* the data root a catalog gets from the argument of a constructor call
RootOf(data_root_arg) ==
    IF data_root_arg.t = "NoneType" THEN modules.KPLR_DATA_DIR ELSE data_root_arg.s

\* C30: for each singleton catalog class, every constructor call returns
\* the instance that the first call created; the arguments of later calls,
\* also the data_root that KOICatalog.join_stars passes, are ignored, so
\* the data_root of the instance is the one of the first call.
C30_FirstInstanceWins ==
    \A c \in CatalogClasses :
        record[c].t # "NoneType" =>
            /\ modules.inst[c].t = "object"
            /\ modules.inst[c].serial = record[c].serial
            /\ modules.inst[c].data_root = RootOf(record[c].args)
            /\ \A i \in DOMAIN calls :
                  calls[i].cls = c =>
                      /\ calls[i].returned.serial = record[c].serial
                      /\ calls[i].returned.data_root = RootOf(record[c].args)

\* join_stars of a KOI catalog whose data root differs from the one the
\* star catalog was first constructed with
C30_Witness ==
    /\ Len(calls) = 1
    /\ calls[1].op = "join_stars"
    /\ calls[1].args.s # calls[1].returned.data_root
    /\ calls[1].returned.data_root = RootOf(record["KICCatalog"].args)
    /\ record["KICCatalog"].args # calls[1].args

====
